---- MODULE Spec2Model ----
(***************************************************************************)
(* Credential issuing and verification, presentation verification and     *)
(* schema resolution of the Dock SDK                                       *)
(* (src/src/modules/schema.js, src/unnamed/part_000, src/unnamed/part_001). *)
(*                                                                         *)
(* One call of the SDK is in progress at a time.  A call is cut at its     *)
(* `await` points: each action is the code between two suspension points,  *)
(* together with the collaborator answer it waits for.  Every collaborator *)
(* call of the call in progress is appended to `calls`.                    *)
(***************************************************************************)
EXTENDS Integers, Sequences, FiniteSets, TLC

\* ------------------------------------------------------------------------
\* Bounds of the model
\* ------------------------------------------------------------------------

\* longest verifiableCredential sequence of a presentation
MaxCreds == 2
\* the most fetches one schema import is followed for
MaxFetches == 4
\* the highest block number the ledger is followed to
MaxBlock == 3

\* ------------------------------------------------------------------------
\* Program constants
\* ------------------------------------------------------------------------

RevRegType == "CredentialStatusList2017"
DockRevRegQualifier == "rev-reg:dock:"
\* byte widths of a registry id and of a revocation entry (types.json: [u8;32])
RevRegIdByteSize == 32
RevEntryByteSize == 32

\* ------------------------------------------------------------------------
\* JavaScript values
\* ------------------------------------------------------------------------

\* `undefined` / `null` for a field or option holding a string or an object
Undefined == "undefined"
Null == "null"

\* A service map ("type -> API") is modelled by the provider keys it has:
\* null, {} , {dock: api}.
EmptyApi == "{}"
DockApi == "{dock}"
ServiceMaps == {Null, EmptyApi, DockApi}

Truthy(v) == v \notin {Undefined, Null}

\* a destructuring default `name = dflt`: applies to undefined only
Default(v, dflt) == IF v = Undefined THEN dflt ELSE v

\* outcome of a call: a returned value or a raised error
Return(v) == [kind |-> "return", value |-> v]
Throw(e) == [kind |-> "throw", error |-> e]

\* errors raised by the code
TypeError == "TypeError"
ErrOnlyDockRevocation == "Only Dock revocation support is present as of now."
ErrOnlyDockSchemas == "Only Dock schemas are supported as of now."
ErrSchemaValidationFailed == "Schema validation failed"
\* `Could not find revocation registry: ${registryID}`
ErrRegistryNotFound == "Could not find revocation registry"

\* verdicts built by checkRevocationStatus
RevokedVerdict == [verified |-> FALSE, error |-> "Revocation check failed"]
FormatVerdict ==
  [verified |-> FALSE,
   error |-> "The credential status does not have the format required by Dock"]
NotRevokedVerdict == [verified |-> TRUE]

\* ------------------------------------------------------------------------
\* Credentials
\* ------------------------------------------------------------------------

CredIds == {"urn:cred:1", "urn:cred:2"}
RegIds == {"reg1"}
\* the id of a registry that was never created on the ledger
AbsentRegIds == {"reg0"}

\* A status id is the string <qualifier><rest>; the model keeps the two parts
\* cut at DockRevRegQualifier.length.  `rest` records whether it is hex and
\* its byte width.
HexRest(r) == [hex |-> TRUE, bytes |-> RevRegIdByteSize, val |-> r]
ShortRest(r) == [hex |-> TRUE, bytes |-> RevRegIdByteSize - 1, val |-> r]
NonHexRest(r) == [hex |-> FALSE, bytes |-> RevRegIdByteSize, val |-> r]
StatusId(q, rest) == [qualifier |-> q, rest |-> rest]

NoStatus == [present |-> FALSE]
Status(id, type) == [present |-> TRUE, hasId |-> TRUE, id |-> id, type |-> type]
StatusWithoutId(type) == [present |-> TRUE, hasId |-> FALSE, type |-> type]

\* buildDockCredentialStatus writing the registry id alone as the status id
buildDockCredentialStatus_BareRegistryId(registryId) ==
  Status(StatusId("", registryId), RevRegType)

\* buildDockCredentialStatus(registryId)
buildDockCredentialStatus(registryId) ==
  Status(StatusId(DockRevRegQualifier, registryId), RevRegType)

WellFormedStatuses ==
  {buildDockCredentialStatus(HexRest(r)) : r \in RegIds \cup AbsentRegIds}

MalformedStatuses ==
  UNION {{Status(StatusId(DockRevRegQualifier, HexRest(r)), "OtherStatusType"),
          Status(StatusId("rev-reg:other:", HexRest(r)), RevRegType),
          Status(StatusId(DockRevRegQualifier, ShortRest(r)), RevRegType),
          Status(StatusId(DockRevRegQualifier, NonHexRest(r)), RevRegType)}
         : r \in RegIds}
    \cup {StatusWithoutId(RevRegType), StatusWithoutId("OtherStatusType")}

\* credentialSubject: absent, one object, or a sequence of objects.  An
\* object is modelled by the set of property names it has.
Fields == {"id", "X"}
NoSubject == [kind |-> "none"]
SubjectObject(fs) == [kind |-> "object", fields |-> fs]
SubjectArray(seq) == [kind |-> "array", items |-> seq]

\* credentialSchema: absent or {id, type}
NoSchema == Undefined
SchemaIds == {"blob:dock:reqX", "blob:dock:reqIdX", "blob:dock:closedX",
              "blob:dock:missing"}

\* Key descriptors.  The verification key names and the signature types of
\* the three suites of vc/custom_crypto.
Ed25519VerKeyName == "Ed25519VerificationKey2018"
EcdsaSecp256k1VerKeyName == "EcdsaSecp256k1VerificationKey2019"
Sr25519VerKeyName == "Sr25519VerificationKey2020"
Ed25519Signature2018 == "Ed25519Signature2018"
EcdsaSepc256k1Signature2019 == "EcdsaSecp256k1Signature2019"
Sr25519Signature2020 == "Sr25519Signature2020"

IssuerDID == "did:dock:issuer1"
OtherDID == "did:dock:other"
\* `${did}#keys-1`
KeyIdOf(did) == did \o "#keys-1"
\* key pairs: k1 is the one registered for IssuerDID, k2 is not registered
KeyPairs == {"k1", "k2"}

KeyDoc(id, controller, type, keypair) ==
  [id |-> id, controller |-> controller, type |-> type, keypair |-> keypair]

\* proof: the signature type as written in the document, the verification
\* method it names, the key pair that signed, and whether the signature is
\* over the document as it is now
Proof(type, verificationMethod, keypair, intact) ==
  [type |-> type, verificationMethod |-> verificationMethod,
   keypair |-> keypair, intact |-> intact]
NoProof == [absent |-> TRUE]
ProofValid == Proof(Ed25519Signature2018, KeyIdOf(IssuerDID), "k1", TRUE)
ProofInvalid == Proof(Ed25519Signature2018, KeyIdOf(IssuerDID), "k1", FALSE)

Credential(id, status, schema, subject, proof) ==
  [id |-> id, credentialStatus |-> status, credentialSchema |-> schema,
   credentialSubject |-> subject, proof |-> proof]


\* ------------------------------------------------------------------------
\* Collaborators
\* ------------------------------------------------------------------------

\* blake2AsHex(credential.id, RevEntryByteSize * 8): a fixed injective table
blake2AsHex(s) ==
  CASE s = "urn:cred:1" -> "0x7a31"
    [] s = "urn:cred:2" -> "0xc40e"
    [] OTHER -> "0x0000"

\* The blob storage behind Schema.get: the JSON schema stored under an id.
\* A schema is modelled by its `required` list and the property names it
\* admits (all of them unless additionalProperties is false).
SchemaDoc(required, allowed) == [required |-> required, allowed |-> allowed]
BlobStore(id) ==
  CASE id = "blob:dock:reqX" -> Return(SchemaDoc({"X"}, Fields))
    [] id = "blob:dock:reqIdX" -> Return(SchemaDoc({"id", "X"}, Fields))
    [] id = "blob:dock:closedX" -> Return(SchemaDoc({"X"}, {"X"}))
    [] OTHER -> Throw("Blob not found")

\* a collaborator call, as recorded in `calls`; i is the position of the
\* credential it is made for (0 for the envelope / the single credential);
\* a revocation query is recorded with the answer it got
SchemaGetCall(i, id) == [kind |-> "schemaGet", i |-> i, id |-> id]
ResolveCall(i) == [kind |-> "resolve", i |-> i]
GetIsRevokedCall(i, regId, revId, answer) ==
  [kind |-> "getIsRevoked", i |-> i, regId |-> regId, revId |-> revId,
   answer |-> answer]

\* ------------------------------------------------------------------------
\* Revocation evaluator
\* ------------------------------------------------------------------------

\* isHexWithGivenByteSize(str, byteSize) of utils/codec
isHexWithGivenByteSize(rest, byteSize) == rest.hex /\ rest.bytes = byteSize

\* hasDockRevocation(credential): the value of the && chain.  An absent
\* status yields `undefined`; a status without id whose type matches raises
\* a TypeError at `.id.startsWith`.
hasDockRevocation(cred) ==
  LET st == cred.credentialStatus IN
  IF ~st.present THEN Return(Undefined)
  ELSE IF st.type # RevRegType THEN Return("false")
  ELSE IF ~st.hasId THEN Throw(TypeError)
  ELSE IF st.id.qualifier # DockRevRegQualifier THEN Return("false")
  ELSE IF isHexWithGivenByteSize(st.id.rest, RevRegIdByteSize)
       THEN Return("true") ELSE Return("false")

\* isRevocationCheckNeeded looking at forceRevocationCheck alone
isRevocationCheckNeeded_OnlyWhenForced(credStatus, forceRevocationCheck, revocationApi) ==
  credStatus.present /\ forceRevocationCheck

\* isRevocationCheckNeeded asking for a dock provider instead of the
\* truthiness of revocationApi
isRevocationCheckNeeded_RequiresDockProvider(credStatus, forceRevocationCheck, revocationApi) ==
  credStatus.present /\ (forceRevocationCheck \/ revocationApi = DockApi)

\* isRevocationCheckNeeded(credStatus, forceRevocationCheck, revocationApi)
isRevocationCheckNeeded(credStatus, forceRevocationCheck, revocationApi) ==
  credStatus.present /\ (forceRevocationCheck \/ Truthy(revocationApi))

\* getDockRevIdFromCredential hashing the id only of a credential that has a
\* status
getDockRevIdFromCredential_LooksAtStatus(cred) ==
  IF cred.credentialStatus.present THEN blake2AsHex(cred.id)
  ELSE blake2AsHex("")

\* getDockRevIdFromCredential(credential)
getDockRevIdFromCredential(cred) == blake2AsHex(cred.id)

\* RevocationModule.getIsRevoked(registryId, revokeId): !resp.isNone of
\* api.query.revoke.revocations(registryId, revokeId); the map of registries
\* is not read
getIsRevoked(ledger, regId, revId) == <<regId, revId>> \in ledger

\* checkRevocationStatus reporting "not revoked" whatever the service answers
checkRevocationStatus_IgnoresAnswer(cred, revocationApi, ledger, i) ==
  IF ~Truthy(revocationApi)
  THEN [out |-> Throw(TypeError), calls |-> <<>>]
  ELSE IF revocationApi # DockApi
  THEN [out |-> Throw(ErrOnlyDockRevocation), calls |-> <<>>]
  ELSE LET h == hasDockRevocation(cred) IN
       IF h.kind = "throw" THEN [out |-> h, calls |-> <<>>]
       ELSE IF h.value # "true"
       THEN [out |-> Return(FormatVerdict), calls |-> <<>>]
       ELSE LET regId == cred.credentialStatus.id.rest
                revId == getDockRevIdFromCredential(cred)
                revocationStatus == getIsRevoked(ledger, regId, revId)
            IN [out |-> Return(NotRevokedVerdict),
                calls |-> <<GetIsRevokedCall(i, regId, revId,
                                             revocationStatus)>>]

\* checkRevocationStatus(credential, revocationApi): its outcome and the
\* collaborator calls it makes, for the credential at position i.
checkRevocationStatus(cred, revocationApi, ledger, i) ==
  IF ~Truthy(revocationApi)
  THEN [out |-> Throw(TypeError), calls |-> <<>>]
  ELSE IF revocationApi # DockApi
  THEN [out |-> Throw(ErrOnlyDockRevocation), calls |-> <<>>]
  ELSE LET h == hasDockRevocation(cred) IN
       IF h.kind = "throw" THEN [out |-> h, calls |-> <<>>]
       ELSE IF h.value # "true"
       THEN [out |-> Return(FormatVerdict), calls |-> <<>>]
       ELSE LET regId == cred.credentialStatus.id.rest
                revId == getDockRevIdFromCredential(cred)
                revocationStatus == getIsRevoked(ledger, regId, revId)
            IN [out |-> IF revocationStatus
                        THEN Return(RevokedVerdict)
                        ELSE Return(NotRevokedVerdict),
                calls |-> <<GetIsRevokedCall(i, regId, revId,
                                             revocationStatus)>>]

\* ------------------------------------------------------------------------
\* Schema validation
\* ------------------------------------------------------------------------

\* jsonschema validate(subject, schema, {throwError: true})
validate(fields, schema) ==
  schema.required \subseteq fields /\ fields \subseteq schema.allowed

\* the subjects validateCredentialSchema iterates over:
\* `credentialSubject.length ? credentialSubject : [credentialSubject]`
SubjectsOf(cs) ==
  CASE cs.kind = "none" -> << {} >>
    [] cs.kind = "object" -> << cs.fields >>
    [] cs.kind = "array" -> IF Len(cs.items) # 0 THEN cs.items ELSE << {} >>

\* validateCredentialSchema(credential, schema): TRUE, or the first failing
\* subject raises
validateCredentialSchema(cred, schema) ==
  LET requiresID == "id" \in schema.required
      subjects == SubjectsOf(cred.credentialSubject)
      Stripped(fs) == IF ~requiresID THEN fs \ {"id"} ELSE fs
  IN \A k \in 1..Len(subjects) : validate(Stripped(subjects[k]), schema)

\* Schema.get(id, dockApi)
SchemaGet(id) == BlobStore(id)

\* The object the loop of validateCredentialSchema works on.  `shared` tells
\* whether it is the caller's own subject object or a fresh one.
\* `subject = subjects[i]`: the caller's object itself
SpreadCopy_Aliases(fs) == [shared |-> TRUE, fields |-> fs]

\* `const subject = { ...subjects[i] }`: a fresh object with the same fields
SpreadCopy(fs) == [shared |-> FALSE, fields |-> fs]

\* `delete subject.id`
DeleteId(obj) == [obj EXCEPT !.fields = @ \ {"id"}]

\* the caller's credentialSubject after validateCredentialSchema(cred, schema):
\* subjects up to the first one failing validation have been through the loop
\* body, and a subject changes only if the object worked on is shared with it
SubjectAfterValidation(cred, schema) ==
  LET requiresID == "id" \in schema.required
      cs == cred.credentialSubject
      subjects == SubjectsOf(cs)
      Local(k) == IF ~requiresID THEN DeleteId(SpreadCopy(subjects[k]))
                  ELSE SpreadCopy(subjects[k])
      Reached(k) == \A j \in 1..(k - 1) : validate(Local(j).fields, schema)
      After(k) == IF Reached(k) /\ Local(k).shared THEN Local(k).fields
                  ELSE subjects[k]
  IN CASE cs.kind = "object" -> SubjectObject(After(1))
       [] cs.kind = "array" /\ Len(cs.items) # 0 ->
            SubjectArray([k \in 1..Len(cs.items) |-> After(k)])
       [] OTHER -> cs

\* a call of jsonschema's validate, as recorded in `calls`: the position of
\* the subject in `subjects` and the properties of the object handed over
ValidateCall(k, fields) ==
  [kind |-> "validate", i |-> 0, index |-> k, subject |-> fields]

\* what validate throws under {throwError: true}
ErrValidation == "ValidationError"

\* validateCredentialSchema(credential, schema) as a call of its own: its
\* outcome and the validate calls of its loop, which ends at the first
\* subject that fails
validateCredentialSchemaCall(cred, schema) ==
  LET requiresID == "id" \in schema.required
      subjects == SubjectsOf(cred.credentialSubject)
      Local(k) == IF ~requiresID THEN DeleteId(SpreadCopy(subjects[k])).fields
                  ELSE SpreadCopy(subjects[k]).fields
      Failing == {k \in 1..Len(subjects) : ~validate(Local(k), schema)}
      last == IF Failing = {} THEN Len(subjects)
              ELSE CHOOSE k \in Failing : \A j \in Failing : k <= j
  IN [out |-> IF Failing = {} THEN Return(TRUE) ELSE Throw(ErrValidation),
      calls |-> [k \in 1..last |-> ValidateCall(k, Local(k))]]

\* getAndValidateSchemaIfPresent without the re-throw of its catch block
getAndValidateSchemaIfPresent_SwallowsFailure(cred, schemaApi, i) ==
  IF ~Truthy(schemaApi) THEN [out |-> Return(Undefined), calls |-> <<>>]
  ELSE IF ~(cred.credentialSubject.kind # "none" /\ Truthy(cred.credentialSchema))
  THEN [out |-> Return(Undefined), calls |-> <<>>]
  ELSE IF schemaApi # DockApi
  THEN [out |-> Throw(ErrOnlyDockSchemas), calls |-> <<>>]
  ELSE [out |-> Return(Undefined),
        calls |-> <<SchemaGetCall(i, cred.credentialSchema)>>]

\* getAndValidateSchemaIfPresent(credential, schemaApi): its outcome and the
\* collaborator calls it makes, for the credential at position i.
getAndValidateSchemaIfPresent(cred, schemaApi, i) ==
  IF ~Truthy(schemaApi) THEN [out |-> Return(Undefined), calls |-> <<>>]
  ELSE IF ~(cred.credentialSubject.kind # "none" /\ Truthy(cred.credentialSchema))
  THEN [out |-> Return(Undefined), calls |-> <<>>]
  ELSE IF schemaApi # DockApi
  THEN [out |-> Throw(ErrOnlyDockSchemas), calls |-> <<>>]
  ELSE LET got == SchemaGet(cred.credentialSchema) IN
       [out |-> IF got.kind = "throw" THEN Throw(ErrSchemaValidationFailed)
                ELSE IF validateCredentialSchema(cred, got.value)
                THEN Return(Undefined)
                ELSE Throw(ErrSchemaValidationFailed),
        calls |-> <<SchemaGetCall(i, cred.credentialSchema)>>]

\* the caller's credential object after getAndValidateSchemaIfPresent
CredentialAfterSchemaStep(cred, schemaApi) ==
  IF /\ schemaApi = DockApi
     /\ cred.credentialSubject.kind # "none" /\ Truthy(cred.credentialSchema)
     /\ SchemaGet(cred.credentialSchema).kind = "return"
  THEN [cred EXCEPT !.credentialSubject =
          SubjectAfterValidation(cred, SchemaGet(cred.credentialSchema).value)]
  ELSE cred


\* ------------------------------------------------------------------------
\* vc-js (external verifier of proofs)
\* ------------------------------------------------------------------------

\* a resolver that dereferences the signer's DID, or none
NoResolver == Null
DockResolver == "resolver"

\* the key pair whose public key the DID document of the resolver lists
\* under a verification method
Dereference(verificationMethod) ==
  IF verificationMethod = KeyIdOf(IssuerDID) THEN "k1" ELSE Undefined

\* the suites verifyCredential and verifyPresentation hand to vc-js; a suite
\* takes up the proofs whose type is its own
VerifierSuites ==
  {Ed25519Signature2018, EcdsaSepc256k1Signature2019, Sr25519Signature2020}

\* a proof verifies when a suite takes it up, the signature is over the
\* document as it is, and the signing key is the one the verification method
\* dereferences to
ProofVerifies(proof) ==
  /\ proof.type \in VerifierSuites
  /\ proof.intact
  /\ Dereference(proof.verificationMethod) = proof.keypair

\* vcjs.verifyCredential: never raises; `results` carries the suite-reported
\* proof metadata
vcjsVerifyCredential(cred, resolver) ==
  IF ProofVerifies(cred.proof) /\ resolver = DockResolver
  THEN [verified |-> TRUE, results |-> <<[proof |-> cred.proof, verified |-> TRUE]>>]
  ELSE [verified |-> FALSE, error |-> "VerificationError"]

\* vcjs.verify({presentation, challenge, domain}): the envelope proof and the
\* proof of every contained credential
vcjsVerify(pres, resolver) ==
  IF /\ ProofVerifies(pres.proof)
     /\ resolver = DockResolver
     /\ \A k \in 1..Len(pres.verifiableCredential) :
           ProofVerifies(pres.verifiableCredential[k].proof)
  THEN [verified |-> TRUE, presentationResult |-> [verified |-> TRUE],
        credentialResults |-> Len(pres.verifiableCredential)]
  ELSE [verified |-> FALSE, error |-> "VerificationError"]

\* ------------------------------------------------------------------------
\* Schema resolution and import (class Schema)
\* ------------------------------------------------------------------------

\* A schema id, a $ref or a URL is a string; the model keeps it as the
\* sequence of its pieces, cut where the code's prefix tests can tell:
\* after the scheme, after "dock:" / "dock/:", before "#" and after
\* "#/$defs".  The empty sequence is the empty string or a property left out
\* (both falsy).
NoRef == << >>
BlobQualifier == <<"blob:", "dock:">>
BlobQualifierInRef == <<"blob:", "dock/:">>
AnonymousBase == <<"/">>
DefsPointer == <<"#/$defs">>

StartsWith(str, prefix) ==
  Len(prefix) <= Len(str) /\ SubSeq(str, 1, Len(prefix)) = prefix

\* `new URL(str)`: of the strings of the model, the URL parser accepts those
\* that begin with a scheme and throws on the others.  "blob:" is a scheme
\* (the rest of the string is then an opaque path), so every string that
\* starts with BlobQualifier parses.
Schemes == {"http:", "https:", "blob:"}
IsURL(str) == str # NoRef /\ str[1] \in Schemes

\* the two spellings of the draft-07 meta-schema URL
Draft07Url == <<"http:", "//json-schema.org/draft-07/schema">>
Draft07UrlHash == <<"http:", "//json-schema.org/draft-07/schema", "#">>

\* A JSON schema document is modelled by its title, its `id`, its `$schema`
\* and the resolved URIs of the $ref it contains, in document order.
SchemaDocument(title, id, meta, refs) ==
  [title |-> title, id |-> id, schema |-> meta, refs |-> refs]

\* the copy of the draft-07 meta-schema stored in the SDK
JSONSchema07 ==
  SchemaDocument("JSONSchema07 (stored)", Draft07UrlHash, Draft07UrlHash, << >>)

AddressUrl == <<"http:", "//example.com/address.json">>
PersonUrl == <<"http:", "//example.com/person.json">>
RootUrl == <<"http:", "//example.com/root.json">>
PageUrl == <<"http:", "//example.com/page.html">>
MetaUrl == <<"http:", "//example.com/meta.json">>
LoopUrl == <<"http:", "//example.com/loop.json">>
Draft07Https == <<"https:", "//json-schema.org/draft-07/schema", "#">>
Draft07Slash == <<"http:", "//json-schema.org/draft-07/schema", "/">>
Draft04UrlHash == <<"http:", "//json-schema.org/draft-04/schema", "#">>
BlobId == BlobQualifier \o <<"5Dperson">>
BlobRef == BlobQualifierInRef \o <<"5Dperson">>
RelativeBlobRef == <<"/", "blob:dock:5D/firstName">>
PlainId == <<"not-a-schema-id">>
InvalidFormatId == <<"invalid-format">>

\* What a GET of a URL answers: a JSON object (the MIME type said JSON), a
\* text that parses as JSON, a text that does not, or no answer at all.
Web(url) ==
  CASE url = AddressUrl ->
         [kind |-> "object",
          doc |-> SchemaDocument("address", AddressUrl, Draft07UrlHash, << >>)]
    [] url = PersonUrl ->
         [kind |-> "text", parses |-> TRUE,
          doc |-> SchemaDocument("person", PersonUrl, Draft07UrlHash,
                                 <<AddressUrl>>)]
    [] url \in {MetaUrl, Draft07Url, Draft07UrlHash, Draft07Https,
                Draft07Slash, Draft04UrlHash} ->
         [kind |-> "object",
          doc |-> SchemaDocument("meta-schema (remote)", url, NoRef, << >>)]
    [] url = LoopUrl ->
         [kind |-> "object",
          doc |-> SchemaDocument("loop (no id)", NoRef, Draft07UrlHash,
                                 <<LoopUrl>>)]
    [] url = PageUrl -> [kind |-> "text", parses |-> FALSE]
    [] OTHER -> [kind |-> "failure"]

FetchCall(url) == [kind |-> "fetch", i |-> 0, url |-> url]
LedgerSchemaCall(id) == [kind |-> "getSchema", i |-> 0, id |-> id]

ErrCannotParse == "Cannot parse response as JSON"
ErrNetwork == "Network Error"
ErrSchemaKeyNotFound == "$schema not found in the given JSON"
ErrSchemaIdQualifier == "Schema id should begin with blob:dock:"
ErrOnlyDockSchema == "Only Dock schema support is present as of now."

\* fetchJSONFromUrl(url): GET the URL; an object is returned as it is, a text
\* is parsed as JSON
fetchJSONFromUrl(url) ==
  LET resp == Web(url) IN
  [out |-> CASE resp.kind = "object" -> Return(resp.doc)
             [] resp.kind = "text" -> IF resp.parses THEN Return(resp.doc)
                                      ELSE Throw(ErrCannotParse)
             [] OTHER -> Throw(ErrNetwork),
   calls |-> <<FetchCall(url)>>]

\* getJSONSchemaSpec fetching whatever $schema says
getJSONSchemaSpec_AlwaysFetches(json) ==
  IF json.schema # NoRef
  THEN fetchJSONFromUrl(json.schema)
  ELSE [out |-> Throw(ErrSchemaKeyNotFound), calls |-> << >>]

\* Schema.getJSONSchemaSpec(json)
getJSONSchemaSpec(json) ==
  IF json.schema # NoRef
  THEN IF json.schema = Draft07Url \/ json.schema = Draft07UrlHash
       THEN [out |-> Return(JSONSchema07), calls |-> << >>]
       ELSE fetchJSONFromUrl(json.schema)
  ELSE [out |-> Throw(ErrSchemaKeyNotFound), calls |-> << >>]

\* Schema.getSchema(id, dockApi): the placeholder that stands for the blob
\* query
getSchema(id) ==
  [out |-> IF id = InvalidFormatId THEN Throw("Incorrect schema format")
           ELSE IF id = <<"invalid-id">> THEN Throw("Invalid schema id")
           ELSE Return(SchemaDocument("{}", NoRef, NoRef, << >>)),
   calls |-> <<LedgerSchemaCall(id)>>]

\* resolveSchema going on to the fetch when the id is no URL and has no blob
\* qualifier
resolveSchema_FetchesUnqualified(schemaId, schemaAPI) ==
  IF IsURL(schemaId) \/ ~StartsWith(schemaId, BlobQualifier)
  THEN fetchJSONFromUrl(schemaId)
  ELSE IF ~Truthy(schemaAPI) THEN [out |-> Throw(TypeError), calls |-> << >>]
  ELSE IF schemaAPI # DockApi
  THEN [out |-> Throw(ErrOnlyDockSchema), calls |-> << >>]
  ELSE LET got == getSchema(schemaId)
           fetched == fetchJSONFromUrl(schemaId)
       IN IF got.out.kind = "throw" THEN got
          ELSE [out |-> fetched.out, calls |-> got.calls \o fetched.calls]

\* resolveSchema answering a qualified id with the document of the ledger
resolveSchema_ReturnsLedgerDocument(schemaId, schemaAPI) ==
  IF StartsWith(schemaId, BlobQualifier) /\ schemaAPI = DockApi
  THEN getSchema(schemaId)
  ELSE IF IsURL(schemaId) THEN fetchJSONFromUrl(schemaId)
  ELSE IF ~StartsWith(schemaId, BlobQualifier)
  THEN [out |-> Throw(ErrSchemaIdQualifier), calls |-> << >>]
  ELSE IF ~Truthy(schemaAPI) THEN [out |-> Throw(TypeError), calls |-> << >>]
  ELSE [out |-> Throw(ErrOnlyDockSchema), calls |-> << >>]

\* Schema.resolveSchema(schemaId, schemaAPI): its outcome and the calls it
\* makes.  The catch block runs when `new URL(schemaId)` throws; whatever it
\* gets from the ledger, the function ends with fetchJSONFromUrl(schemaId).
resolveSchema(schemaId, schemaAPI) ==
  IF IsURL(schemaId) THEN fetchJSONFromUrl(schemaId)
  ELSE IF ~StartsWith(schemaId, BlobQualifier)
  THEN [out |-> Throw(ErrSchemaIdQualifier), calls |-> << >>]
  ELSE IF ~Truthy(schemaAPI) THEN [out |-> Throw(TypeError), calls |-> << >>]
  ELSE IF schemaAPI # DockApi
  THEN [out |-> Throw(ErrOnlyDockSchema), calls |-> << >>]
  ELSE LET got == getSchema(schemaId)
           fetched == fetchJSONFromUrl(schemaId)
       IN IF got.out.kind = "throw" THEN got
          ELSE [out |-> fetched.out, calls |-> got.calls \o fetched.calls]

\* jsonschema Validator: the URIs it has a schema for and its queue of
\* unresolved references
EmptyValidator == [schemas |-> {}, unresolvedRefs |-> << >>]

\* the URIs Validator.addSchema registers a schema under: its id, or the
\* anonymous base "/", with and without the trailing "#"
RegisteredUris(schema) ==
  LET base == IF schema.id # NoRef THEN schema.id ELSE AnonymousBase
  IN IF base[Len(base)] = "#" THEN {base, SubSeq(base, 1, Len(base) - 1)}
     ELSE {base, base \o <<"#">>}

\* Validator.addSchema(schema): registers the schema, queues its references
\* and drops from the queue the URIs it now has a schema for
addSchema(v, schema) ==
  LET schemas == v.schemas \cup RegisteredUris(schema)
      Unknown(uri) == uri \notin schemas
  IN [schemas |-> schemas,
      unresolvedRefs |-> SelectSeq(v.unresolvedRefs \o schema.refs, Unknown)]

\* 'blob:dock/:<id>' -> BlobQualifier + <id>
RewriteBlobRef(ref) ==
  IF StartsWith(ref, BlobQualifierInRef)
  THEN BlobQualifier \o SubSeq(ref, Len(BlobQualifierInRef) + 1, Len(ref))
  ELSE ref

\* `initialSchema.id` without the `|| '/'`
InitialSchemaId_NoDefault(initialSchema) == initialSchema.id

\* `initialSchema.id || '/'`
InitialSchemaId(initialSchema) ==
  IF initialSchema.id # NoRef THEN initialSchema.id ELSE AnonymousBase

\* does importNextSchema pass over the reference: it starts with
\* `${initialSchemaId}#/$defs`
IsOwnDefinition(ref, initialSchema) ==
  StartsWith(ref, InitialSchemaId(initialSchema) \o DefsPointer)

\* ------------------------------------------------------------------------
\* Issuing
\* ------------------------------------------------------------------------

\* `new Cls({...keyDoc, verificationMethod: keyDoc.id})`
Suite(cls, keyDoc) ==
  [cls |-> cls, id |-> keyDoc.id, controller |-> keyDoc.controller,
   type |-> keyDoc.type, keypair |-> keyDoc.keypair,
   verificationMethod |-> keyDoc.id]

ErrUnknownKeyType(type) == "Unknown key type " \o type \o "."

\* getSuiteFromKeyDoc with an Ed25519 suite in its default case
getSuiteFromKeyDoc_FallsBackToEd25519(keyDoc) ==
  CASE keyDoc.type = EcdsaSecp256k1VerKeyName ->
         Return(Suite(EcdsaSepc256k1Signature2019, keyDoc))
    [] keyDoc.type = Ed25519VerKeyName ->
         Return(Suite(Ed25519Signature2018, keyDoc))
    [] keyDoc.type = Sr25519VerKeyName ->
         Return(Suite(Sr25519Signature2020, keyDoc))
    [] OTHER -> Return(Suite(Ed25519Signature2018, keyDoc))

\* getSuiteFromKeyDoc(keyDoc)
getSuiteFromKeyDoc(keyDoc) ==
  CASE keyDoc.type = EcdsaSecp256k1VerKeyName ->
         Return(Suite(EcdsaSepc256k1Signature2019, keyDoc))
    [] keyDoc.type = Ed25519VerKeyName ->
         Return(Suite(Ed25519Signature2018, keyDoc))
    [] keyDoc.type = Sr25519VerKeyName ->
         Return(Suite(Sr25519Signature2020, keyDoc))
    [] OTHER -> Throw(ErrUnknownKeyType(keyDoc.type))

\* the proof type as it stands in the issued document: the terms of the
\* Sr25519 suite are not in the security context the proof is compacted
\* against, so its type comes out as "/Sr25519Signature2020"
WrittenProofType(cls) ==
  IF cls = Sr25519Signature2020 THEN "/" \o cls ELSE cls

\* vcjs.issue({suite, credential, ...}): signs the credential it is given and
\* returns it with the proof attached
vcjsIssue(suite, cred) ==
  [cred EXCEPT !.proof = Proof(WrittenProofType(suite.cls),
                               suite.verificationMethod, suite.keypair, TRUE)]

\* The object issueCredential works on.  `shared` tells whether it is the
\* caller's draft or a fresh object.
\* `cred = credential`: the caller's object itself
CloneCredential_Aliases(draft) == [shared |-> TRUE, value |-> draft]

\* `const cred = { ...credential }`
CloneCredential(draft) == [shared |-> FALSE, value |-> draft]

\* issueCredential(keyDoc, credential): its outcome and the caller's draft
\* object after the call
issueCredential(keyDoc, draft) ==
  LET suite == getSuiteFromKeyDoc(keyDoc) IN
  IF suite.kind = "throw" THEN [out |-> suite, draft |-> draft]
  ELSE LET cred == CloneCredential(draft)
           withIssuer == [cred.value EXCEPT !.issuer = keyDoc.controller]
           signed == vcjsIssue(suite.value, withIssuer)
       IN [out |-> Return(signed),
           draft |-> IF cred.shared THEN signed ELSE draft]

\* ------------------------------------------------------------------------
\* Inputs
\* ------------------------------------------------------------------------

\* the key descriptors issueCredential and getSuiteFromKeyDoc are called with;
\* a descriptor with no type has type Undefined
KeyTypes ==
  {Ed25519VerKeyName, EcdsaSecp256k1VerKeyName, Sr25519VerKeyName,
   "RsaVerificationKey2018", Undefined}
KeyDocs ==
  {KeyDoc(KeyIdOf(IssuerDID), IssuerDID, t, k) : t \in KeyTypes, k \in KeyPairs}

\* the unsigned credentials issueCredential is called with
Drafts ==
  {[id |-> "urn:cred:1", credentialStatus |-> st, credentialSchema |-> sc,
    credentialSubject |-> su, issuer |-> iss, proof |-> NoProof] :
     st \in {NoStatus, buildDockCredentialStatus(HexRest("reg1"))},
     sc \in {NoSchema, "blob:dock:reqX"},
     su \in {SubjectObject({"id", "X"}), SubjectObject({"id"})},
     iss \in {Undefined, OtherDID, IssuerDID}}

Statuses == {NoStatus} \cup WellFormedStatuses \cup MalformedStatuses

Subjects ==
  {NoSubject, SubjectObject({"id", "X"}), SubjectObject({"id"}),
   SubjectArray(<< {"id", "X"}, {"id"} >>), SubjectArray(<< >>)}

\* the credentials verifyCredential is called with
Credentials ==
  {Credential(id, st, sc, su, pr) :
     id \in CredIds, st \in Statuses, sc \in {NoSchema} \cup SchemaIds,
     su \in Subjects, pr \in {ProofValid, ProofInvalid}}

\* the credentials bundled in presentations
PresentedStatuses ==
  {NoStatus, buildDockCredentialStatus(HexRest("reg1")),
   Status(StatusId(DockRevRegQualifier, ShortRest("reg1")), RevRegType)}
PresentedCredentials ==
  {Credential(id, st, ss[1], ss[2], ProofValid) :
     id \in CredIds, st \in PresentedStatuses,
     ss \in {<<NoSchema, SubjectObject({"id", "X"})>>,
             <<"blob:dock:reqX", SubjectObject({"id", "X"})>>,
             <<"blob:dock:reqX", SubjectObject({"id"})>>}}
    \cup {Credential("urn:cred:2", NoStatus, NoSchema,
                     SubjectObject({"id", "X"}), ProofInvalid)}

SeqsUpTo(S, n) == UNION {[1..k -> S] : k \in 0..n}

Presentations ==
  {[verifiableCredential |-> cs, proof |-> pr] :
     cs \in SeqsUpTo(PresentedCredentials, MaxCreds),
     pr \in {ProofValid, ProofInvalid}}

\* the root schemas updateSchemaValidatorWithSchemas is called with
OwnDefinitionOf(base) == base \o DefsPointer \o <<"/uri">>
RootSchemas ==
  {SchemaDocument("root, own $defs", RootUrl, Draft07UrlHash,
                  <<OwnDefinitionOf(RootUrl)>>),
   SchemaDocument("anonymous, own $defs", NoRef, Draft07UrlHash,
                  <<OwnDefinitionOf(AnonymousBase)>>),
   SchemaDocument("anonymous, relative blob ref", NoRef, Draft07UrlHash,
                  <<RelativeBlobRef, OwnDefinitionOf(AnonymousBase)>>),
   SchemaDocument("root, no ref", RootUrl, Draft07UrlHash, << >>),
   SchemaDocument("root, person", RootUrl, Draft07UrlHash, <<PersonUrl>>),
   SchemaDocument("root, own $defs and address", RootUrl, Draft07UrlHash,
                  <<OwnDefinitionOf(RootUrl), AddressUrl>>),
   SchemaDocument("root, address and person", RootUrl, Draft07UrlHash,
                  <<AddressUrl, PersonUrl>>),
   SchemaDocument("root, blob ref", RootUrl, Draft07UrlHash, <<BlobRef>>),
   SchemaDocument("root, $defs of address", RootUrl, Draft07UrlHash,
                  <<OwnDefinitionOf(AddressUrl)>>),
   SchemaDocument("root, page", RootUrl, Draft07UrlHash,
                  <<PageUrl, AddressUrl>>),
   SchemaDocument("anonymous, person", NoRef, Draft07UrlHash, <<PersonUrl>>),
   SchemaDocument("root, loop", RootUrl, Draft07UrlHash, <<LoopUrl>>),
   SchemaDocument("anonymous, no ref", NoRef, Draft07UrlHash, << >>)}

\* the ids resolveSchema is called with
SchemaIdentifiers ==
  {AddressUrl, PersonUrl, PageUrl, MetaUrl, BlobId, RelativeBlobRef, PlainId,
   InvalidFormatId, <<"blob-dock-5Dperson">>, <<"dock:", "5Dperson">>}

\* the JSON documents getJSONSchemaSpec is called with, by their $schema
JsonDocuments ==
  {[schema |-> m] :
     m \in {NoRef, Draft07Url, Draft07UrlHash, Draft07Https, Draft07Slash,
            Draft04UrlHash, MetaUrl, PageUrl,
            <<"http:", "//unreachable.example/meta.json">>}}

\* the credentials and the schemas validateCredentialSchema is called with
SubjectCredentials ==
  {Credential("urn:cred:1", NoStatus, "blob:dock:reqX", su, ProofValid) :
     su \in Subjects
           \cup {SubjectObject({"X"}), SubjectArray(<< {"id", "X"} >>),
                 SubjectArray(<< {"id"}, {"id", "X"} >>),
                 SubjectArray(<< {"id", "X"}, {"X"} >>)}}
CredentialSchemas ==
  {SchemaDoc({"X"}, Fields), SchemaDoc({"id", "X"}, Fields),
   SchemaDoc({"X"}, {"X"}), SchemaDoc({}, Fields)}

\* the options object of a call; Undefined is an option left out
Options ==
  [resolver : {Undefined, DockResolver},
   forceRevocationCheck : {Undefined, "true", "false"},
   revocationApi : {Undefined, EmptyApi, DockApi},
   schemaApi : {Undefined, EmptyApi, DockApi}]

\* the parameters after the destructuring defaults of verifyCredential /
\* verifyPresentation
Destructure(o) ==
  [resolver |-> Default(o.resolver, Null),
   forceRevocationCheck |-> (Default(o.forceRevocationCheck, "true") = "true"),
   revocationApi |-> Default(o.revocationApi, Null),
   schemaApi |-> Default(o.schemaApi, Null)]

\* ------------------------------------------------------------------------
\* State
\* ------------------------------------------------------------------------

VARIABLES
  pc,           \* position of the call in progress, "idle" when there is none
  op,           \* the entry point called
  credential,   \* the caller's credential object the call was given
  presentation, \* the caller's presentation object the call was given
  options,      \* the options object as passed
  params,       \* the destructured parameters
  credVer,      \* local: result of vcjs.verifyCredential
  presVer,      \* local: result of vcjs.verify
  idx,          \* local: 1-based position of the credential being checked
  result,       \* outcome of the call once pc = "done"
  calls,        \* collaborator calls made by the call in progress
  revocations,  \* ledger: the revoked (registryId, revokeId) pairs
  args,         \* the arguments of the call in progress, as they were passed
  validator,    \* the jsonschema Validator of the schema import in progress
  registries,   \* ledger: last-modified block number of each registry on chain
  tasks         \* the locals of each of the verification calls run side by side

vars == <<pc, op, credential, presentation, options, params, credVer, presVer,
          idx, result, calls, revocations, args, validator, registries, tasks>>

Nothing == [nothing |-> TRUE]

\* the verification calls that may be under way side by side
Callers == {1, 2}
IdleFrame == [pc |-> "idle"]
IdleTask == [args |-> Nothing, frame |-> IdleFrame]

\* api.query.revoke.registries: the registries created on the ledger, each
\* with the block number of its last change
FirstBlock == 1
RegistriesOnChain == [r \in {HexRest(x) : x \in RegIds} |-> FirstBlock]

\* the registry ids revokeCredential / unrevokeCredential are called with
RegistryIdsGiven == {HexRest(r) : r \in RegIds \cup AbsentRegIds}

Init ==
  /\ pc = "idle"
  /\ op = "none"
  /\ credential = Nothing
  /\ presentation = Nothing
  /\ options = Nothing
  /\ params = Nothing
  /\ credVer = Nothing
  /\ presVer = Nothing
  /\ idx = 0
  /\ result = Nothing
  /\ calls = << >>
  /\ revocations = {<<HexRest("reg1"), blake2AsHex("urn:cred:1")>>}
  /\ args = Nothing
  /\ validator = Nothing
  /\ registries = RegistriesOnChain
  /\ tasks = [t \in Callers |-> IdleTask]

\* ------------------------------------------------------------------------
\* verifyCredential(credential, options)
\* ------------------------------------------------------------------------

CallVerifyCredential ==
  /\ pc = "idle"
  /\ \E c \in Credentials, o \in Options :
       /\ credential' = c
       /\ options' = o
       /\ params' = Destructure(o)
       /\ args' = [credential |-> c, options |-> o]
  /\ op' = "verifyCredential"
  /\ pc' = "vc_schema"
  /\ UNCHANGED <<presentation, credVer, presVer, idx, result, calls, revocations,
                 validator,
                 registries, tasks>>

\* await getAndValidateSchemaIfPresent(credential, schemaApi)
VerifyCredentialSchema ==
  /\ pc = "vc_schema"
  /\ LET r == getAndValidateSchemaIfPresent(credential, params.schemaApi, 0) IN
       /\ calls' = calls \o r.calls
       /\ IF r.out.kind = "throw"
          THEN pc' = "done" /\ result' = r.out
          ELSE pc' = "vc_verify" /\ UNCHANGED result
  /\ credential' = CredentialAfterSchemaStep(credential, params.schemaApi)
  /\ UNCHANGED <<op, presentation, options, params, credVer, presVer, idx,
                 revocations, args,
                 validator,
                 registries, tasks>>

\* const credVer = await vcjs.verifyCredential({...})
VerifyCredentialProof ==
  /\ pc = "vc_verify"
  /\ credVer' = vcjsVerifyCredential(credential, params.resolver)
  /\ calls' = IF params.resolver = DockResolver
              THEN Append(calls, ResolveCall(0)) ELSE calls
  /\ pc' = "vc_revocation"
  /\ UNCHANGED <<op, credential, presentation, options, params, presVer, idx,
                 result, revocations, args,
                 validator,
                 registries, tasks>>

\* the last lines of verifyCredential without the `credVer.verified &&` guard
VerifyCredentialTail_SkipsVerifiedGuard(cred, p, cv, ledger) ==
  IF isRevocationCheckNeeded(cred.credentialStatus,
                             p.forceRevocationCheck, p.revocationApi)
  THEN LET rev == checkRevocationStatus(cred, p.revocationApi, ledger, 0) IN
       [out |-> IF rev.out.kind = "throw" THEN rev.out
                ELSE IF ~rev.out.value.verified THEN Return(rev.out.value)
                ELSE Return(cv),
        calls |-> rev.calls]
  ELSE [out |-> Return(cv), calls |-> << >>]

\* the last lines of verifyCredential returning revResult in every case
VerifyCredentialTail_ReturnsRevocationVerdict(cred, p, cv, ledger) ==
  IF cv.verified /\ isRevocationCheckNeeded(cred.credentialStatus,
                        p.forceRevocationCheck, p.revocationApi)
  THEN LET rev == checkRevocationStatus(cred, p.revocationApi, ledger, 0) IN
       [out |-> IF rev.out.kind = "throw" THEN rev.out
                ELSE Return(rev.out.value),
        calls |-> rev.calls]
  ELSE [out |-> Return(cv), calls |-> << >>]

\* the outcome of the last lines of verifyCredential, and their calls
VerifyCredentialTail(cred, p, cv, ledger) ==
  IF cv.verified /\ isRevocationCheckNeeded(cred.credentialStatus,
                        p.forceRevocationCheck, p.revocationApi)
  THEN LET rev == checkRevocationStatus(cred, p.revocationApi, ledger, 0) IN
       [out |-> IF rev.out.kind = "throw" THEN rev.out
                ELSE IF ~rev.out.value.verified THEN Return(rev.out.value)
                ELSE Return(cv),
        calls |-> rev.calls]
  ELSE [out |-> Return(cv), calls |-> << >>]

\* if (credVer.verified && isRevocationCheckNeeded(...)) {...} return credVer
VerifyCredentialRevocation ==
  /\ pc = "vc_revocation"
  /\ LET r == VerifyCredentialTail(credential, params, credVer, revocations) IN
       /\ calls' = calls \o r.calls
       /\ result' = r.out
  /\ pc' = "done"
  /\ UNCHANGED <<op, credential, presentation, options, params, credVer,
                 presVer, idx, revocations, args,
                 validator,
                 registries, tasks>>

\* the caller takes the outcome; the next call starts from fresh locals
Return_ ==
  /\ pc = "done"
  /\ pc' = "idle"
  /\ op' = "none"
  /\ credential' = Nothing
  /\ presentation' = Nothing
  /\ options' = Nothing
  /\ params' = Nothing
  /\ credVer' = Nothing
  /\ presVer' = Nothing
  /\ idx' = 0
  /\ result' = Nothing
  /\ calls' = << >>
  /\ args' = Nothing
  /\ validator' = Nothing
  /\ UNCHANGED <<revocations, registries, tasks>>

\* ------------------------------------------------------------------------
\* verifyPresentation(presentation, options)
\* ------------------------------------------------------------------------

CallVerifyPresentation ==
  /\ pc = "idle"
  /\ \E p \in Presentations, o \in Options :
       /\ presentation' = p
       /\ options' = o
       /\ params' = Destructure(o)
       /\ args' = [presentation |-> p, options |-> o]
  /\ op' = "verifyPresentation"
  /\ pc' = "vp_verify"
  /\ UNCHANGED <<credential, credVer, presVer, idx, result, calls, revocations,
                 validator,
                 registries, tasks>>

\* verifyPresentation without the `if (presVer.verified)` around its loop
VerifyPresentationProof_EntersLoopUnverified ==
  /\ pc = "vp_verify"
  /\ LET pv == vcjsVerify(presentation, params.resolver) IN
       /\ presVer' = pv
       /\ IF 0 < Len(presentation.verifiableCredential)
          THEN pc' = "vp_revocation" /\ idx' = 1 /\ UNCHANGED result
          ELSE pc' = "done" /\ result' = Return(pv) /\ UNCHANGED idx
  /\ calls' = IF params.resolver = DockResolver
              THEN Append(calls, ResolveCall(0)) ELSE calls
  /\ UNCHANGED <<op, credential, presentation, options, params, credVer,
                 revocations, args,
                 validator,
                 registries, tasks>>

\* const presVer = await vcjs.verify({...}); the loop is entered only when
\* presVer.verified and there is a credential, else presVer is returned
VerifyPresentationProof ==
  /\ pc = "vp_verify"
  /\ LET pv == vcjsVerify(presentation, params.resolver) IN
       /\ presVer' = pv
       /\ IF pv.verified /\ 0 < Len(presentation.verifiableCredential)
          THEN pc' = "vp_revocation" /\ idx' = 1 /\ UNCHANGED result
          ELSE pc' = "done" /\ result' = Return(pv) /\ UNCHANGED idx
  /\ calls' = IF params.resolver = DockResolver
              THEN Append(calls, ResolveCall(0)) ELSE calls
  /\ UNCHANGED <<op, credential, presentation, options, params, credVer,
                 revocations, args,
                 validator,
                 registries, tasks>>

\* the revocation step of the loop body for the credential at position i:
\* an outcome ends the call, `continue` goes on to the schema step
PresentationRevocationStep(cred, p, ledger, i) ==
  IF isRevocationCheckNeeded(cred.credentialStatus, p.forceRevocationCheck,
                             p.revocationApi)
  THEN LET rev == checkRevocationStatus(cred, p.revocationApi, ledger, i) IN
       [continue |-> rev.out.kind = "return" /\ rev.out.value.verified,
        out |-> IF rev.out.kind = "throw" THEN rev.out
                ELSE Return(rev.out.value),
        calls |-> rev.calls]
  ELSE [continue |-> TRUE, out |-> Return(Undefined), calls |-> << >>]

\* the loop body without `if (!res.verified) return res`
VerifyPresentationRevocation_ContinuesAfterFailure ==
  /\ pc = "vp_revocation"
  /\ LET r == PresentationRevocationStep(presentation.verifiableCredential[idx],
                                         params, revocations, idx) IN
       /\ calls' = calls \o r.calls
       /\ IF r.out.kind = "return"
          THEN pc' = "vp_schema" /\ UNCHANGED result
          ELSE pc' = "done" /\ result' = r.out
  /\ UNCHANGED <<op, credential, presentation, options, params, credVer,
                 presVer, idx, revocations, args,
                 validator,
                 registries, tasks>>

\* if (isRevocationCheckNeeded(...)) { res = await checkRevocationStatus(...);
\*   if (!res.verified) return res; }
VerifyPresentationRevocation ==
  /\ pc = "vp_revocation"
  /\ LET r == PresentationRevocationStep(presentation.verifiableCredential[idx],
                                         params, revocations, idx) IN
       /\ calls' = calls \o r.calls
       /\ IF r.continue
          THEN pc' = "vp_schema" /\ UNCHANGED result
          ELSE pc' = "done" /\ result' = r.out
  /\ UNCHANGED <<op, credential, presentation, options, params, credVer,
                 presVer, idx, revocations, args,
                 validator,
                 registries, tasks>>

\* the loop body whose schema fetch is started ahead of the calls before it
VerifyPresentationSchema_NotAwaitedInOrder ==
  /\ pc = "vp_schema"
  /\ LET r == getAndValidateSchemaIfPresent(
                presentation.verifiableCredential[idx], params.schemaApi, idx)
     IN
       /\ calls' = r.calls \o calls
       /\ IF r.out.kind = "throw"
          THEN pc' = "done" /\ result' = r.out /\ UNCHANGED idx
          ELSE IF idx < Len(presentation.verifiableCredential)
          THEN pc' = "vp_revocation" /\ idx' = idx + 1 /\ UNCHANGED result
          ELSE pc' = "done" /\ result' = Return(presVer) /\ UNCHANGED idx
  /\ presentation' =
       [presentation EXCEPT !.verifiableCredential[idx] =
          CredentialAfterSchemaStep(@, params.schemaApi)]
  /\ UNCHANGED <<op, credential, options, params, credVer, presVer,
                 revocations, args,
                 validator,
                 registries, tasks>>

\* await getAndValidateSchemaIfPresent(credential, schemaApi); i++; after the
\* last credential presVer is returned
VerifyPresentationSchema ==
  /\ pc = "vp_schema"
  /\ LET r == getAndValidateSchemaIfPresent(
                presentation.verifiableCredential[idx], params.schemaApi, idx)
     IN
       /\ calls' = calls \o r.calls
       /\ IF r.out.kind = "throw"
          THEN pc' = "done" /\ result' = r.out /\ UNCHANGED idx
          ELSE IF idx < Len(presentation.verifiableCredential)
          THEN pc' = "vp_revocation" /\ idx' = idx + 1 /\ UNCHANGED result
          ELSE pc' = "done" /\ result' = Return(presVer) /\ UNCHANGED idx
  /\ presentation' =
       [presentation EXCEPT !.verifiableCredential[idx] =
          CredentialAfterSchemaStep(@, params.schemaApi)]
  /\ UNCHANGED <<op, credential, options, params, credVer, presVer,
                 revocations, args,
                 validator,
                 registries, tasks>>

\* ------------------------------------------------------------------------
\* Direct calls of the exported helpers
\* ------------------------------------------------------------------------

\* the values a caller passes for revocationApi
RevocationApis == {Undefined} \cup ServiceMaps

\* isRevocationCheckNeeded(credStatus, forceRevocationCheck, revocationApi)
CallIsRevocationCheckNeeded ==
  /\ pc = "idle"
  /\ \E st \in Statuses, f \in BOOLEAN, api \in RevocationApis :
       /\ args' = [credStatus |-> st, forceRevocationCheck |-> f,
                   revocationApi |-> api]
       /\ result' = Return(isRevocationCheckNeeded(st, f, api))
  /\ op' = "isRevocationCheckNeeded"
  /\ pc' = "done"
  /\ UNCHANGED <<credential, presentation, options, params, credVer, presVer,
                 idx, calls, revocations,
                 validator,
                 registries, tasks>>

\* hasDockRevocation(credential)
CallHasDockRevocation ==
  /\ pc = "idle"
  /\ \E c \in Credentials :
       /\ args' = [credential |-> c]
       /\ credential' = c
       /\ result' = hasDockRevocation(c)
  /\ op' = "hasDockRevocation"
  /\ pc' = "done"
  /\ UNCHANGED <<presentation, options, params, credVer, presVer, idx, calls,
                 revocations,
                 validator,
                 registries, tasks>>

\* getSuiteFromKeyDoc(keyDoc)
CallGetSuiteFromKeyDoc ==
  /\ pc = "idle"
  /\ \E k \in KeyDocs :
       /\ args' = [keyDoc |-> k]
       /\ result' = getSuiteFromKeyDoc(k)
  /\ op' = "getSuiteFromKeyDoc"
  /\ pc' = "done"
  /\ UNCHANGED <<credential, presentation, options, params, credVer, presVer,
                 idx, calls, revocations,
                 validator,
                 registries, tasks>>

\* issueCredential(keyDoc, credential)
CallIssueCredential ==
  /\ pc = "idle"
  /\ \E k \in KeyDocs, c \in Drafts :
       LET r == issueCredential(k, c) IN
         /\ args' = [keyDoc |-> k, credential |-> c]
         /\ credential' = r.draft
         /\ result' = r.out
  /\ op' = "issueCredential"
  /\ pc' = "done"
  /\ UNCHANGED <<presentation, options, params, credVer, presVer, idx, calls,
                 revocations,
                 validator,
                 registries, tasks>>

\* checkRevocationStatus(credential, revocationApi)
CallCheckRevocationStatus ==
  /\ pc = "idle"
  /\ \E c \in Credentials, api \in RevocationApis :
       LET r == checkRevocationStatus(c, api, revocations, 0) IN
         /\ args' = [credential |-> c, revocationApi |-> api]
         /\ credential' = c
         /\ result' = r.out
         /\ calls' = r.calls
  /\ op' = "checkRevocationStatus"
  /\ pc' = "done"
  /\ UNCHANGED <<presentation, options, params, credVer, presVer, idx,
                 revocations, validator, registries, tasks>>

\* validateCredentialSchema(credential, schema)
CallValidateCredentialSchema ==
  /\ pc = "idle"
  /\ \E c \in SubjectCredentials, schema \in CredentialSchemas :
       LET r == validateCredentialSchemaCall(c, schema) IN
         /\ args' = [credential |-> c, schema |-> schema]
         /\ credential' = [c EXCEPT !.credentialSubject =
                             SubjectAfterValidation(c, schema)]
         /\ result' = r.out
         /\ calls' = r.calls
  /\ op' = "validateCredentialSchema"
  /\ pc' = "done"
  /\ UNCHANGED <<presentation, options, params, credVer, presVer, idx,
                 revocations, validator, registries, tasks>>

\* getDockRevIdFromCredential(credential)
CallGetDockRevIdFromCredential ==
  /\ pc = "idle"
  /\ \E c \in Credentials :
       /\ args' = [credential |-> c]
       /\ credential' = c
       /\ result' = Return(getDockRevIdFromCredential(c))
  /\ op' = "getDockRevIdFromCredential"
  /\ pc' = "done"
  /\ UNCHANGED <<presentation, options, params, credVer, presVer, idx, calls,
                 revocations, validator, registries, tasks>>

\* verifyCredential(await issueCredential(keyDoc, draft), options): the
\* credential just issued is handed to verifyCredential as it was returned
CallVerifyIssuedCredential ==
  /\ pc = "done"
  /\ op = "issueCredential"
  /\ result.kind = "return"
  /\ \E o \in Options :
       /\ credential' = result.value
       /\ options' = o
       /\ params' = Destructure(o)
       /\ args' = [credential |-> result.value, options |-> o,
                   keyDoc |-> args.keyDoc, draft |-> args.credential]
  /\ op' = "verifyCredential"
  /\ pc' = "vc_schema"
  /\ result' = Nothing
  /\ UNCHANGED <<presentation, credVer, presVer, idx, calls, revocations, validator,
                 registries, tasks>>

\* ------------------------------------------------------------------------
\* Schema.getJSONSchemaSpec, Schema.resolveSchema,
\* Schema.updateSchemaValidatorWithSchemas
\* ------------------------------------------------------------------------

\* Schema.getJSONSchemaSpec(json)
CallGetJSONSchemaSpec ==
  /\ pc = "idle"
  /\ \E json \in JsonDocuments :
       LET r == getJSONSchemaSpec(json) IN
         /\ args' = [json |-> json]
         /\ result' = r.out
         /\ calls' = r.calls
  /\ op' = "getJSONSchemaSpec"
  /\ pc' = "done"
  /\ UNCHANGED <<credential, presentation, options, params, credVer, presVer,
                 idx, revocations, validator,
                 registries, tasks>>

\* Schema.resolveSchema(schemaId, schemaAPI)
CallResolveSchema ==
  /\ pc = "idle"
  /\ \E id \in SchemaIdentifiers, api \in ServiceMaps :
       LET r == resolveSchema(id, api) IN
         /\ args' = [schemaId |-> id, schemaAPI |-> api]
         /\ result' = r.out
         /\ calls' = r.calls
  /\ op' = "resolveSchema"
  /\ pc' = "done"
  /\ UNCHANGED <<credential, presentation, options, params, credVer, presVer,
                 idx, revocations, validator,
                 registries, tasks>>

\* Schema.updateSchemaValidatorWithSchemas(validator, initialSchema,
\* schemaAPI) up to the first importNextSchema(): validator.addSchema(
\* initialSchema) on a fresh Validator
CallUpdateSchemaValidator ==
  /\ pc = "idle"
  /\ \E root \in RootSchemas, api \in ServiceMaps :
       /\ args' = [initialSchema |-> root, schemaAPI |-> api]
       /\ params' = [initialSchema |-> root, schemaAPI |-> api]
       /\ validator' = addSchema(EmptyValidator, root)
  /\ op' = "updateSchemaValidatorWithSchemas"
  /\ pc' = "usv_import"
  /\ UNCHANGED <<credential, presentation, options, credVer, presVer, idx,
                 result, calls, revocations,
                 registries, tasks>>

\* one importNextSchema(): shift the queue; return on an empty queue; pass
\* over a reference to the root's own $defs; else resolve the reference and
\* add the schema it resolves to
ImportNextSchema ==
  /\ pc = "usv_import"
  /\ Len(calls) < MaxFetches
  /\ IF validator.unresolvedRefs = << >> \/ Head(validator.unresolvedRefs) = NoRef
     THEN /\ pc' = "done"
          /\ result' = Return(Undefined)
          /\ validator' = [validator EXCEPT !.unresolvedRefs =
                             IF @ = << >> THEN @ ELSE Tail(@)]
          /\ UNCHANGED calls
     ELSE LET shifted == [validator EXCEPT !.unresolvedRefs = Tail(@)]
              nextSchemaId == RewriteBlobRef(Head(validator.unresolvedRefs))
          IN IF IsOwnDefinition(nextSchemaId, params.initialSchema)
             THEN /\ validator' = shifted
                  /\ UNCHANGED <<pc, result, calls>>
             ELSE LET r == resolveSchema(nextSchemaId, params.schemaAPI) IN
                    /\ calls' = calls \o r.calls
                    /\ IF r.out.kind = "throw"
                       THEN /\ pc' = "done"
                            /\ result' = r.out
                            /\ validator' = shifted
                       ELSE /\ validator' = addSchema(shifted, r.out.value)
                            /\ UNCHANGED <<pc, result>>
  /\ UNCHANGED <<op, credential, presentation, options, params, credVer,
                 presVer, idx, revocations, args,
                 registries, tasks>>

Next ==
  \/ CallVerifyCredential
  \/ VerifyCredentialSchema
  \/ VerifyCredentialProof
  \/ VerifyCredentialRevocation
  \/ CallVerifyPresentation
  \/ VerifyPresentationProof
  \/ VerifyPresentationRevocation
  \/ VerifyPresentationSchema
  \/ CallIsRevocationCheckNeeded
  \/ CallHasDockRevocation
  \/ CallGetSuiteFromKeyDoc
  \/ CallIssueCredential
  \/ CallVerifyIssuedCredential
  \/ CallGetDockRevIdFromCredential
  \/ CallCheckRevocationStatus
  \/ CallValidateCredentialSchema
  \/ CallGetJSONSchemaSpec
  \/ CallResolveSchema
  \/ CallUpdateSchemaValidator
  \/ ImportNextSchema
  \/ Return_

Spec == Init /\ [][Next]_vars

\* The calls of class Schema alone.  A call of
\* updateSchemaValidatorWithSchemas that is under way goes on: the promise
\* importNextSchema awaits is settled and its continuation is run.
SchemaNext ==
  \/ CallGetJSONSchemaSpec
  \/ CallResolveSchema
  \/ CallUpdateSchemaValidator
  \/ ImportNextSchema
  \/ Return_

SchemaSpec == Init /\ [][SchemaNext]_vars /\ WF_vars(ImportNextSchema)

\* ------------------------------------------------------------------------
\* verifyCredential / verifyPresentation called again while a call is
\* suspended at an await
\* ------------------------------------------------------------------------

\* the credentials, presentations and options of the calls run side by side
TaskCredentials ==
  {Credential(id, st, ss[1], ss[2], ProofValid) :
     id \in CredIds,
     st \in {NoStatus, buildDockCredentialStatus(HexRest("reg1"))},
     ss \in {<<NoSchema, SubjectObject({"id", "X"})>>,
             <<"blob:dock:reqX", SubjectObject({"id"})>>}}
    \cup {Credential("urn:cred:2", NoStatus, NoSchema,
                     SubjectObject({"id", "X"}), ProofInvalid)}

TaskPresentedCredentials ==
  {Credential("urn:cred:1", buildDockCredentialStatus(HexRest("reg1")),
              NoSchema, SubjectObject({"id", "X"}), ProofValid),
   Credential("urn:cred:2", buildDockCredentialStatus(HexRest("reg1")),
              "blob:dock:reqX", SubjectObject({"id", "X"}), ProofValid),
   Credential("urn:cred:2", NoStatus, "blob:dock:reqX", SubjectObject({"id"}),
              ProofValid)}

TaskPresentations ==
  {[verifiableCredential |-> cs, proof |-> ProofValid] :
     cs \in SeqsUpTo(TaskPresentedCredentials, MaxCreds) \ {<< >>}}

TaskOptions ==
  [resolver : {DockResolver},
   forceRevocationCheck : {Undefined},
   revocationApi : {Undefined, DockApi},
   schemaApi : {Undefined, DockApi}]

\* call t has been made and its caller has not yet taken the outcome
UnderWay(t) == tasks[t].args # Nothing

\* the locals a continuation of call t works on, were they kept in one
\* module-level slot that the first call owns while it is under way
Frame_ModuleLevel(ts, t) ==
  IF ts[1].frame.pc # "idle" THEN ts[1].frame ELSE ts[t].frame

\* the locals a continuation of call t works on: the `const`s and parameters
\* of its own invocation
Frame(ts, t) == ts[t].frame

CallVerifyCredentialBy(t) ==
  /\ tasks[t].frame.pc = "idle"
  /\ \E c \in TaskCredentials, o \in TaskOptions :
       tasks' = [tasks EXCEPT ![t] =
                   [args |-> [op |-> "verifyCredential", credential |-> c,
                              options |-> o],
                    frame |-> [pc |-> "vc_schema", credential |-> c,
                               params |-> Destructure(o), credVer |-> Nothing,
                               result |-> Nothing, calls |-> << >>]]]
  /\ UNCHANGED <<pc, op, credential, presentation, options, params, credVer,
                 presVer, idx, result, calls, revocations, args, validator,
                 registries>>

\* await getAndValidateSchemaIfPresent(credential, schemaApi)
VerifyCredentialSchemaBy(t) ==
  LET f == Frame(tasks, t) IN
  /\ UnderWay(t)
  /\ f.pc = "vc_schema"
  /\ LET r == getAndValidateSchemaIfPresent(f.credential, f.params.schemaApi, 0)
     IN tasks' = [tasks EXCEPT ![t].frame =
          [f EXCEPT !.calls = @ \o r.calls,
                    !.credential =
                       CredentialAfterSchemaStep(@, f.params.schemaApi),
                    !.pc = IF r.out.kind = "throw" THEN "done" ELSE "vc_verify",
                    !.result = IF r.out.kind = "throw" THEN r.out ELSE @]]
  /\ UNCHANGED <<pc, op, credential, presentation, options, params, credVer,
                 presVer, idx, result, calls, revocations, args, validator,
                 registries>>

\* const credVer = await vcjs.verifyCredential({...})
VerifyCredentialProofBy(t) ==
  LET f == Frame(tasks, t) IN
  /\ UnderWay(t)
  /\ f.pc = "vc_verify"
  /\ tasks' = [tasks EXCEPT ![t].frame =
       [f EXCEPT !.credVer = vcjsVerifyCredential(f.credential, f.params.resolver),
                 !.calls = IF f.params.resolver = DockResolver
                           THEN Append(@, ResolveCall(0)) ELSE @,
                 !.pc = "vc_revocation"]]
  /\ UNCHANGED <<pc, op, credential, presentation, options, params, credVer,
                 presVer, idx, result, calls, revocations, args, validator,
                 registries>>

\* if (credVer.verified && isRevocationCheckNeeded(...)) {...} return credVer
VerifyCredentialRevocationBy(t) ==
  LET f == Frame(tasks, t) IN
  /\ UnderWay(t)
  /\ f.pc = "vc_revocation"
  /\ LET r == VerifyCredentialTail(f.credential, f.params, f.credVer,
                                   revocations)
     IN tasks' = [tasks EXCEPT ![t].frame =
          [f EXCEPT !.calls = @ \o r.calls, !.result = r.out, !.pc = "done"]]
  /\ UNCHANGED <<pc, op, credential, presentation, options, params, credVer,
                 presVer, idx, result, calls, revocations, args, validator,
                 registries>>

CallVerifyPresentationBy(t) ==
  /\ tasks[t].frame.pc = "idle"
  /\ \E p \in TaskPresentations, o \in TaskOptions :
       tasks' = [tasks EXCEPT ![t] =
                   [args |-> [op |-> "verifyPresentation", presentation |-> p,
                              options |-> o],
                    frame |-> [pc |-> "vp_verify", presentation |-> p,
                               params |-> Destructure(o), presVer |-> Nothing,
                               idx |-> 0, result |-> Nothing,
                               calls |-> << >>]]]
  /\ UNCHANGED <<pc, op, credential, presentation, options, params, credVer,
                 presVer, idx, result, calls, revocations, args, validator,
                 registries>>

\* const presVer = await vcjs.verify({...})
VerifyPresentationProofBy(t) ==
  LET f == Frame(tasks, t) IN
  /\ UnderWay(t)
  /\ f.pc = "vp_verify"
  /\ LET pv == vcjsVerify(f.presentation, f.params.resolver)
         enter == pv.verified /\ 0 < Len(f.presentation.verifiableCredential)
     IN tasks' = [tasks EXCEPT ![t].frame =
          [f EXCEPT !.presVer = pv,
                    !.calls = IF f.params.resolver = DockResolver
                              THEN Append(@, ResolveCall(0)) ELSE @,
                    !.pc = IF enter THEN "vp_revocation" ELSE "done",
                    !.idx = IF enter THEN 1 ELSE @,
                    !.result = IF enter THEN @ ELSE Return(pv)]]
  /\ UNCHANGED <<pc, op, credential, presentation, options, params, credVer,
                 presVer, idx, result, calls, revocations, args, validator,
                 registries>>

\* res = await checkRevocationStatus(credential, revocationApi)
VerifyPresentationRevocationBy(t) ==
  LET f == Frame(tasks, t) IN
  /\ UnderWay(t)
  /\ f.pc = "vp_revocation"
  /\ LET r == PresentationRevocationStep(
                f.presentation.verifiableCredential[f.idx], f.params,
                revocations, f.idx)
     IN tasks' = [tasks EXCEPT ![t].frame =
          [f EXCEPT !.calls = @ \o r.calls,
                    !.pc = IF r.continue THEN "vp_schema" ELSE "done",
                    !.result = IF r.continue THEN @ ELSE r.out]]
  /\ UNCHANGED <<pc, op, credential, presentation, options, params, credVer,
                 presVer, idx, result, calls, revocations, args, validator,
                 registries>>

\* await getAndValidateSchemaIfPresent(credential, schemaApi); i++
VerifyPresentationSchemaBy(t) ==
  LET f == Frame(tasks, t) IN
  /\ UnderWay(t)
  /\ f.pc = "vp_schema"
  /\ LET r == getAndValidateSchemaIfPresent(
                f.presentation.verifiableCredential[f.idx],
                f.params.schemaApi, f.idx)
         last == f.idx = Len(f.presentation.verifiableCredential)
     IN tasks' = [tasks EXCEPT ![t].frame =
          [f EXCEPT !.calls = @ \o r.calls,
                    !.presentation.verifiableCredential[f.idx] =
                       CredentialAfterSchemaStep(@, f.params.schemaApi),
                    !.pc = IF r.out.kind = "throw" \/ last THEN "done"
                           ELSE "vp_revocation",
                    !.idx = IF r.out.kind = "throw" \/ last THEN @ ELSE @ + 1,
                    !.result = IF r.out.kind = "throw" THEN r.out
                               ELSE IF last THEN Return(f.presVer) ELSE @]]
  /\ UNCHANGED <<pc, op, credential, presentation, options, params, credVer,
                 presVer, idx, result, calls, revocations, args, validator,
                 registries>>

\* the caller of call t takes the outcome
ReturnTo(t) ==
  /\ tasks[t].frame.pc = "done"
  /\ tasks' = [tasks EXCEPT ![t] = IdleTask]
  /\ UNCHANGED <<pc, op, credential, presentation, options, params, credVer,
                 presVer, idx, result, calls, revocations, args, validator,
                 registries>>

ConcurrentNext ==
  \E t \in Callers :
    \/ CallVerifyCredentialBy(t)
    \/ VerifyCredentialSchemaBy(t)
    \/ VerifyCredentialProofBy(t)
    \/ VerifyCredentialRevocationBy(t)
    \/ CallVerifyPresentationBy(t)
    \/ VerifyPresentationProofBy(t)
    \/ VerifyPresentationRevocationBy(t)
    \/ VerifyPresentationSchemaBy(t)
    \/ ReturnTo(t)

ConcurrentSpec == Init /\ [][ConcurrentNext]_vars

\* verifyCredential(credential, options) run from call to return with
\* nothing in between: its outcome and its collaborator calls
VerifyCredentialAlone(c, o, ledger) ==
  LET p == Destructure(o)
      s == getAndValidateSchemaIfPresent(c, p.schemaApi, 0)
      c2 == CredentialAfterSchemaStep(c, p.schemaApi)
      cv == vcjsVerifyCredential(c2, p.resolver)
      resolve == IF p.resolver = DockResolver THEN <<ResolveCall(0)>> ELSE << >>
      r == VerifyCredentialTail(c2, p, cv, ledger)
  IN IF s.out.kind = "throw" THEN [out |-> s.out, calls |-> s.calls]
     ELSE [out |-> r.out, calls |-> s.calls \o resolve \o r.calls]

\* the loop of verifyPresentation from position i on
RECURSIVE CheckCredentialsFrom(_, _, _, _, _)
CheckCredentialsFrom(creds, i, p, pv, ledger) ==
  IF i > Len(creds) THEN [out |-> Return(pv), calls |-> << >>]
  ELSE LET r == PresentationRevocationStep(creds[i], p, ledger, i) IN
       IF ~r.continue THEN [out |-> r.out, calls |-> r.calls]
       ELSE LET s == getAndValidateSchemaIfPresent(creds[i], p.schemaApi, i) IN
            IF s.out.kind = "throw"
            THEN [out |-> s.out, calls |-> r.calls \o s.calls]
            ELSE LET rest == CheckCredentialsFrom(creds, i + 1, p, pv, ledger)
                 IN [out |-> rest.out,
                     calls |-> r.calls \o s.calls \o rest.calls]

\* verifyPresentation(presentation, options) run from call to return with
\* nothing in between
VerifyPresentationAlone(pres, o, ledger) ==
  LET p == Destructure(o)
      pv == vcjsVerify(pres, p.resolver)
      resolve == IF p.resolver = DockResolver THEN <<ResolveCall(0)>> ELSE << >>
  IN IF ~pv.verified THEN [out |-> Return(pv), calls |-> resolve]
     ELSE LET l == CheckCredentialsFrom(pres.verifiableCredential, 1, p, pv,
                                        ledger)
          IN [out |-> l.out, calls |-> resolve \o l.calls]

Alone(a, ledger) ==
  IF a.op = "verifyCredential"
  THEN VerifyCredentialAlone(a.credential, a.options, ledger)
  ELSE VerifyPresentationAlone(a.presentation, a.options, ledger)


\* ------------------------------------------------------------------------
\* RevocationModule: revokeCredential, unrevokeCredential
\* ------------------------------------------------------------------------

\* the DID key sets an update is signed with
DidKeySets == {"didKeysA", "didKeysB"}

\* RevocationModule.getRegistryDetail(registryID): [policy, block number of
\* the last change], or the not-found error when the query answers None
getRegistryDetail(ledger, registryID) ==
  IF registryID \in DOMAIN ledger
  THEN Return(<<"policy", ledger[registryID]>>)
  ELSE Throw(ErrRegistryNotFound)

\* RevocationModule.getBlockNoForLastChangeToRegistry(registryId)
getBlockNoForLastChangeToRegistry(ledger, registryId) ==
  LET detail == getRegistryDetail(ledger, registryId) IN
  IF detail.kind = "throw" THEN detail ELSE Return(detail.value[2])

\* RevocationModule.revoke / unrevoke(registryID, revokeIds, lastModified,
\* didKeys): the extrinsic made of the update and the signatures over it
UpdateExtrinsic(method, registryID, revokeIds, lastModified, didKeys) ==
  LET update == [registry_id |-> registryID, revoke_ids |-> revokeIds,
                 last_modified |-> lastModified]
  IN [method |-> method, update |-> update,
      signedProof |-> [keys |-> didKeys, over |-> update]]

\* the name of the extrinsic updateFunc builds
UpdateFuncOf(entry) ==
  IF entry = "revokeCredential" THEN "revoke" ELSE "unrevoke"

\* the continuation of updateRevReg asking the ledger again for the block
\* number at the time it builds the update
updateRevRegContinuation_ReadsAgain(updateFunc, didKeys, registryId, revId, lastModified, ledger) ==
  UpdateExtrinsic(updateFunc, registryId, {revId}, ledger[registryId], didKeys)

\* the continuation of updateRevReg after its await: revokeIds = new Set()
\* with revId added, then updateFunc(registryId, revokeIds, lastModified,
\* didKeys)
updateRevRegContinuation(updateFunc, didKeys, registryId, revId, lastModified, ledger) ==
  UpdateExtrinsic(updateFunc, registryId, {revId}, lastModified, didKeys)

\* revokeCredential(didKeys, registryId, revId) up to the await of
\* updateRevReg
CallRevokeCredential ==
  /\ pc = "idle"
  /\ \E k \in DidKeySets, r \in RegistryIdsGiven, id \in CredIds :
       args' = [didKeys |-> k, registryId |-> r, revId |-> blake2AsHex(id)]
  /\ op' = "revokeCredential"
  /\ pc' = "urr_read"
  /\ UNCHANGED <<credential, presentation, options, params, credVer, presVer,
                 idx, result, calls, revocations, validator, registries, tasks>>

\* unrevokeCredential(didKeys, registryId, revId) up to the await of
\* updateRevReg
CallUnrevokeCredential ==
  /\ pc = "idle"
  /\ \E k \in DidKeySets, r \in RegistryIdsGiven, id \in CredIds :
       args' = [didKeys |-> k, registryId |-> r, revId |-> blake2AsHex(id)]
  /\ op' = "unrevokeCredential"
  /\ pc' = "urr_read"
  /\ UNCHANGED <<credential, presentation, options, params, credVer, presVer,
                 idx, result, calls, revocations, validator, registries, tasks>>

\* const lastModified = await this.getBlockNoForLastChangeToRegistry(
\* registryId): the ledger answers the query
ReadLastModified ==
  /\ pc = "urr_read"
  /\ LET r == getBlockNoForLastChangeToRegistry(registries, args.registryId) IN
       IF r.kind = "throw"
       THEN pc' = "done" /\ result' = r /\ UNCHANGED params
       ELSE /\ pc' = "urr_build"
            /\ params' = [lastModified |-> r.value]
            /\ UNCHANGED result
  /\ UNCHANGED <<op, credential, presentation, options, credVer, presVer, idx,
                 calls, revocations, args, validator, registries, tasks>>

\* the rest of updateRevReg: the update is built and returned
BuildUpdate ==
  /\ pc = "urr_build"
  /\ result' = Return(updateRevRegContinuation(
                         UpdateFuncOf(op), args.didKeys, args.registryId,
                         args.revId, params.lastModified, registries))
  /\ pc' = "done"
  /\ UNCHANGED <<op, credential, presentation, options, params, credVer,
                 presVer, idx, calls, revocations, args, validator, registries,
                 tasks>>

\* the revocation id another controller of the registry revokes
OtherRevokeId == "0xffff"

\* the ledger includes an update of a registry sent by another party: the
\* revocation is stored and the registry's last-modified block number moves on
RegistryUpdated ==
  /\ \E r \in DOMAIN registries :
       /\ registries[r] < MaxBlock
       /\ registries' = [registries EXCEPT ![r] = @ + 1]
       /\ revocations' = revocations \cup {<<r, OtherRevokeId>>}
  /\ UNCHANGED <<pc, op, credential, presentation, options, params, credVer,
                 presVer, idx, result, calls, args, validator, tasks>>

RevocationNext ==
  \/ CallRevokeCredential
  \/ CallUnrevokeCredential
  \/ ReadLastModified
  \/ BuildUpdate
  \/ RegistryUpdated
  \/ Return_

RevocationSpec == Init /\ [][RevocationNext]_vars


\* ------------------------------------------------------------------------
\* Vocabulary of the properties
\* ------------------------------------------------------------------------

Done == pc = "done"
InVerifyCredential == op = "verifyCredential"
InVerifyPresentation == op = "verifyPresentation"

ReturnedVerified == Done /\ result.kind = "return" /\ result.value.verified

CallsOfKind(kind) == {k \in 1..Len(calls) : calls[k].kind = kind}

\* the signature step of verifyCredential has run and succeeded
SignatureStepSucceeded == credVer # Nothing /\ credVer.verified

\* the revocation check applies to the credential of the call in progress
RevocationCheckRequired ==
  isRevocationCheckNeeded(credential.credentialStatus,
                          params.forceRevocationCheck, params.revocationApi)

\* the credential declares a schema and a subject
DeclaresSchema(cred) ==
  cred.credentialSchema # NoSchema /\ cred.credentialSubject.kind # "none"

\* the declared schema resolves to one requiring X and a subject lacks X
SchemaMismatch(cred) ==
  /\ DeclaresSchema(cred)
  /\ BlobStore(cred.credentialSchema).kind = "return"
  /\ "X" \in BlobStore(cred.credentialSchema).value.required
  /\ \E k \in 1..Len(SubjectsOf(cred.credentialSubject)) :
        "X" \notin SubjectsOf(cred.credentialSubject)[k]

\* the credentials of the presentation of the call in progress
PresentedCount == Len(presentation.verifiableCredential)
Presented(i) == presentation.verifiableCredential[i]

\* the per-credential check of verifyPresentation, recomputed from the
\* inputs: the outcome that ends the call at credential i, if any
CredentialCheckFails(i) ==
  LET rev == PresentationRevocationStep(Presented(i), params, revocations, i) IN
  \/ ~rev.continue
  \/ getAndValidateSchemaIfPresent(Presented(i), params.schemaApi, i).out.kind
       = "throw"

CredentialCheckOutcome(i) ==
  LET rev == PresentationRevocationStep(Presented(i), params, revocations, i) IN
  IF ~rev.continue THEN rev.out
  ELSE getAndValidateSchemaIfPresent(Presented(i), params.schemaApi, i).out

EnvelopeVerified == presVer # Nothing /\ presVer.verified

\* ------------------------------------------------------------------------
\* Properties
\* ------------------------------------------------------------------------

\* C1: verifyCredential on a credential with a valid signature and a
\* well-formed credentialStatus, with no revocation service and
\* forceRevocationCheck left at its default, raises the configuration error
\* of a missing revocation service.
C1_FailClosedRaisesServiceRequired ==
  ( /\ Done /\ InVerifyCredential
    /\ SignatureStepSucceeded
    /\ credential.credentialStatus \in WellFormedStatuses
    /\ options.revocationApi = Undefined
    /\ options.forceRevocationCheck = Undefined )
  => result = Throw(ErrOnlyDockRevocation)

\* C2: when the signature step succeeded, a revocation check is required and
\* getIsRevoked answered true for the queried pair, verifyCredential returns
\* exactly {verified: false, error: "Revocation check failed"}.
C2_RevocationOverridesSignature ==
  ( /\ Done /\ InVerifyCredential
    /\ SignatureStepSucceeded
    /\ RevocationCheckRequired
    /\ \E k \in CallsOfKind("getIsRevoked") :
          /\ calls[k].answer
          /\ calls[k].regId = credential.credentialStatus.id.rest
          /\ calls[k].revId = getDockRevIdFromCredential(credential) )
  => result = Return(RevokedVerdict)

C2_Witness ==
  /\ Done /\ InVerifyCredential
  /\ SignatureStepSucceeded
  /\ \E k \in CallsOfKind("getIsRevoked") : calls[k].answer
  /\ result = Return(RevokedVerdict)

\* C3: verifyCredential calls its collaborators in the order schema fetch,
\* DID resolution, revocation query; a failed schema step leaves no DID
\* resolution and no revocation query, a failed signature step leaves no
\* revocation query.
StepRank(kind) ==
  CASE kind = "schemaGet" -> 1 [] kind = "resolve" -> 2 [] kind = "getIsRevoked" -> 3

C3_OrderedShortCircuit ==
  InVerifyCredential =>
    /\ \A j, k \in 1..Len(calls) :
          j < k => StepRank(calls[j].kind) < StepRank(calls[k].kind)
    /\ ( Done /\ getAndValidateSchemaIfPresent(credential, params.schemaApi, 0)
                   .out.kind = "throw" )
         => /\ result = getAndValidateSchemaIfPresent(credential,
                                                      params.schemaApi, 0).out
            /\ CallsOfKind("resolve") = {}
            /\ CallsOfKind("getIsRevoked") = {}
    /\ ( credVer # Nothing /\ ~credVer.verified )
         => /\ CallsOfKind("getIsRevoked") = {}
            /\ Done => result = Return(credVer)

\* a schema failure with a resolver and a revocation service at hand
C3_Witness ==
  /\ Done /\ InVerifyCredential
  /\ result = Throw(ErrSchemaValidationFailed)
  /\ params.resolver = DockResolver
  /\ params.revocationApi = DockApi
  /\ credential.credentialStatus \in WellFormedStatuses
  /\ credential.proof = ProofValid
  /\ Len(calls) = 1

\* C4: a credential declaring credentialSchema and credentialSubject, verified
\* with no schema service configured, fails with the SchemaServiceRequired
\* error; its schema check is never skipped (verifyCredential, and the
\* per-credential schema step of verifyPresentation).
NoSchemaService == params.schemaApi # DockApi

C4_SchemaServiceRequired ==
  /\ ( Done /\ InVerifyCredential /\ NoSchemaService
       /\ DeclaresSchema(credential) )
       => result = Throw(ErrOnlyDockSchemas)
  /\ ( Done /\ InVerifyPresentation /\ NoSchemaService /\ ReturnedVerified )
       => \A i \in 1..PresentedCount : ~DeclaresSchema(Presented(i))

\* C5: a credential whose schema requires X and whose subject lacks X is
\* never verified, by verifyCredential or verifyPresentation, whatever the
\* other options.
C5_SchemaMismatchNeverVerified ==
  /\ ( InVerifyCredential /\ SchemaMismatch(credential) ) => ~ReturnedVerified
  /\ ( InVerifyPresentation
       /\ \E i \in 1..PresentedCount : SchemaMismatch(Presented(i)) )
       => ~ReturnedVerified

\* C6 (as stated): a bad signature, a revoked credential and a schema
\* mismatch are each reported by a returned {verified: false, error} verdict.
BadSignature ==
  \/ InVerifyCredential /\ credVer # Nothing /\ ~credVer.verified
  \/ InVerifyPresentation /\ presVer # Nothing /\ ~presVer.verified

RevokedAnswered == \E k \in CallsOfKind("getIsRevoked") : calls[k].answer

\* the schema of a mismatching credential was fetched for validation
MismatchChecked ==
  \E k \in CallsOfKind("schemaGet") :
     SchemaMismatch(IF InVerifyCredential THEN credential
                    ELSE Presented(calls[k].i))

ReturnedFailureVerdict ==
  result.kind = "return" /\ ~result.value.verified

C7_MissingServiceRaisesConfigurationError ==
  ( /\ Done /\ InVerifyCredential
    /\ SignatureStepSucceeded
    /\ RevocationCheckRequired
    /\ params.revocationApi # DockApi )
  => result = Throw(ErrOnlyDockRevocation)

\* C8: when the envelope verification of verifyPresentation is not verified,
\* no revocation query and no schema fetch is made and the envelope's result
\* is returned.
C8_EnvelopeFirst ==
  InVerifyPresentation =>
    /\ presVer = Nothing => calls = << >>
    /\ ( presVer # Nothing /\ ~presVer.verified )
         => /\ Done
            /\ result = Return(presVer)
            /\ CallsOfKind("getIsRevoked") = {}
            /\ CallsOfKind("schemaGet") = {}

C8_Witness ==
  /\ Done /\ InVerifyPresentation
  /\ ~presVer.verified
  /\ PresentedCount = MaxCreds
  /\ params.revocationApi = DockApi
  /\ params.schemaApi = DockApi
  /\ \A i \in 1..PresentedCount : CredentialCheckFails(i)

\* C9: with a valid envelope, the first credential whose check fails decides
\* the outcome of verifyPresentation, and no revocation query or schema fetch
\* is made for a later credential.
C9_FirstFailingCredentialDecides ==
  ( Done /\ InVerifyPresentation /\ EnvelopeVerified )
  => \A i \in 1..PresentedCount :
        ( CredentialCheckFails(i)
          /\ \A j \in 1..(i - 1) : ~CredentialCheckFails(j) )
        => /\ result = CredentialCheckOutcome(i)
           /\ \A k \in 1..Len(calls) : calls[k].i <= i

\* two credentials, the first revoked, the second one with checks of its own
C9_Witness ==
  /\ Done /\ InVerifyPresentation /\ EnvelopeVerified
  /\ PresentedCount = 2
  /\ result = Return(RevokedVerdict)
  /\ Presented(2).credentialStatus \in WellFormedStatuses
  /\ DeclaresSchema(Presented(2))
  /\ params.schemaApi = DockApi
  /\ \A k \in 1..Len(calls) : calls[k].i <= 1

\* C10: verifyCredential returns the result of the signature step unchanged
\* when no revocation check applies or the check passes; verifyPresentation
\* returns the envelope result unchanged when every credential passes.
RevocationCheckPassed ==
  checkRevocationStatus(credential, params.revocationApi, revocations, 0).out
    = Return(NotRevokedVerdict)

C10_PassThrough ==
  /\ ( Done /\ InVerifyCredential /\ credVer # Nothing
       /\ (~credVer.verified \/ ~RevocationCheckRequired \/ RevocationCheckPassed) )
       => result = Return(credVer)
  /\ ( Done /\ InVerifyPresentation /\ EnvelopeVerified
       /\ \A i \in 1..PresentedCount : ~CredentialCheckFails(i) )
       => result = Return(presVer)

\* a passed revocation check: the result carries the proof results
C10_Witness ==
  /\ Done /\ InVerifyCredential
  /\ SignatureStepSucceeded
  /\ \E k \in CallsOfKind("getIsRevoked") : ~calls[k].answer
  /\ result = Return(credVer)
  /\ result.value # NotRevokedVerdict

\* C11: isRevocationCheckNeeded(status, forceCheck, service) is true exactly
\* when a status exists and (forceCheck is true or a revocation service was
\* supplied); an empty service object counts as supplied, and without a status
\* the result is false whatever the other two arguments.
ServiceSupplied(api) == api \in {EmptyApi, DockApi}

C11_RevocationCheckNeeded ==
  ( Done /\ op = "isRevocationCheckNeeded" )
  => /\ result.kind = "return"
     /\ result.value = TRUE
          <=> ( /\ args.credStatus # NoStatus
                /\ ( args.forceRevocationCheck
                     \/ ServiceSupplied(args.revocationApi) ) )
     /\ result.value = FALSE
          <=> ( \/ args.credStatus = NoStatus
                \/ ( ~args.forceRevocationCheck
                     /\ ~ServiceSupplied(args.revocationApi) ) )

\* not forced, an empty service object, a status of any shape: needed
C11_Witness ==
  /\ Done /\ op = "isRevocationCheckNeeded"
  /\ args.credStatus \in MalformedStatuses
  /\ ~args.forceRevocationCheck
  /\ args.revocationApi = EmptyApi
  /\ result = Return(TRUE)

\* C12: hasDockRevocation(credential) returns true exactly when
\* credentialStatus exists, has the recognized type, an id starting with the
\* registry qualifier and a remainder that is hex of the registry-id width;
\* for every other credential, one without credentialStatus or with a status
\* without id included, it returns the boolean false and does not fail.
C12_HasDockRevocationIsTotal ==
  ( Done /\ op = "hasDockRevocation" )
  => result = IF args.credential.credentialStatus \in WellFormedStatuses
              THEN Return("true") ELSE Return("false")

\* C13 (as stated): a validly signed credential whose credentialStatus is
\* present but malformed is not failed by verifyCredential on account of the
\* status whenever forceRevocationCheck is false, a revocation service being
\* supplied or not; it is failed when the check is forced.
MalformedStatusCase ==
  /\ Done /\ InVerifyCredential
  /\ SignatureStepSucceeded
  /\ credential.credentialStatus \in MalformedStatuses

C13_MalformedStatusFailsOnlyWhenForced ==
  MalformedStatusCase =>
    /\ ~params.forceRevocationCheck => result = Return(credVer)
    /\ params.forceRevocationCheck => ~ReturnedVerified

\* C13 (amended): the malformed status is passed over only when
\* forceRevocationCheck is false and no revocation service is supplied; when
\* the check is forced or a service is supplied the verification fails, with
\* the format verdict when the service has a dock provider and the status an
\* id, with a raised error otherwise.
C13_MalformedStatusFailsWhenChecked ==
  MalformedStatusCase =>
    /\ ( ~params.forceRevocationCheck /\ ~Truthy(params.revocationApi) )
         => result = Return(credVer)
    /\ ( params.forceRevocationCheck \/ Truthy(params.revocationApi) )
         => /\ ~ReturnedVerified
            /\ ( params.revocationApi = DockApi
                 /\ credential.credentialStatus.hasId )
                 => result = Return(FormatVerdict)
            /\ ( params.revocationApi # DockApi
                 \/ ~credential.credentialStatus.hasId )
                 => result.kind = "throw" \/ result = Return(FormatVerdict)

\* not forced, a dock revocation service, a status id of the wrong width
C13_Witness ==
  /\ MalformedStatusCase
  /\ ~params.forceRevocationCheck
  /\ params.revocationApi = DockApi
  /\ credential.credentialStatus.hasId
  /\ credential.credentialStatus.type = RevRegType
  /\ result = Return(FormatVerdict)

\* C14: verifyCredential and verifyPresentation never change their input: at
\* every point of the call, and so after it whether it returns or raises, the
\* credential (each credentialSubject and its id included) and the
\* presentation equal the values passed in.
C14_InputsUnchanged ==
  /\ InVerifyCredential => credential = args.credential
  /\ InVerifyPresentation => presentation = args.presentation

\* a subject with an id verified against a schema that admits X only: the id
\* was removed for validation, and is still there afterwards
C14_Witness ==
  /\ Done /\ InVerifyCredential
  /\ ReturnedVerified
  /\ CallsOfKind("schemaGet") # {}
  /\ args.credential.credentialSchema = "blob:dock:closedX"
  /\ args.credential.credentialSubject = SubjectObject({"id", "X"})
  /\ credential.credentialSubject = SubjectObject({"id", "X"})

RecognizedKeyTypes ==
  {Ed25519VerKeyName, EcdsaSecp256k1VerKeyName, Sr25519VerKeyName}

RoundTripCase ==
  /\ Done /\ InVerifyCredential
  /\ "keyDoc" \in DOMAIN args
  /\ args.keyDoc.type \in RecognizedKeyTypes
  /\ args.draft.credentialStatus = NoStatus
  /\ args.draft.credentialSchema = NoSchema
  /\ params.resolver = DockResolver
  /\ Dereference(args.keyDoc.id) = args.keyDoc.keypair

C16_IssueVerifyRoundTrip == RoundTripCase => ReturnedVerified

\* C17: getSuiteFromKeyDoc returns, for a key descriptor with one of the three
\* recognized types, the suite of that type bound to the descriptor's id as
\* verification method; for any other type, a missing one included, it raises
\* the error naming the type and builds no suite.
SuiteClassOf(type) ==
  CASE type = Ed25519VerKeyName -> Ed25519Signature2018
    [] type = EcdsaSecp256k1VerKeyName -> EcdsaSepc256k1Signature2019
    [] type = Sr25519VerKeyName -> Sr25519Signature2020

C17_SuiteSelection ==
  ( Done /\ op = "getSuiteFromKeyDoc" )
  => IF args.keyDoc.type \in RecognizedKeyTypes
     THEN /\ result.kind = "return"
          /\ result.value.cls = SuiteClassOf(args.keyDoc.type)
          /\ result.value.verificationMethod = args.keyDoc.id
          /\ result.value.keypair = args.keyDoc.keypair
     ELSE result = Throw(ErrUnknownKeyType(args.keyDoc.type))

\* a descriptor without type: the error names `undefined`
C17_Witness ==
  /\ Done /\ op = "getSuiteFromKeyDoc"
  /\ args.keyDoc.type = Undefined
  /\ result = Throw("Unknown key type undefined.")

\* C18: updateSchemaValidatorWithSchemas on a root schema whose only
\* unresolved reference lies under the root's own "<rootId>#/$defs" makes no
\* resolveSchema / fetch call and completes.
InSchemaImport == op = "updateSchemaValidatorWithSchemas"

OnlyOwnDefinitionRef ==
  /\ InSchemaImport
  /\ \/ /\ args.initialSchema.id = RootUrl
        /\ args.initialSchema.refs = <<RootUrl \o <<"#/$defs", "/uri">>>>
     \/ /\ args.initialSchema.id = NoRef
        /\ args.initialSchema.refs = << <<"/", "#/$defs", "/uri">> >>

C18_SelfReferenceImport ==
  /\ [](OnlyOwnDefinitionRef
          => /\ calls = << >>
             /\ Done => result = Return(Undefined))
  /\ ( (OnlyOwnDefinitionRef /\ pc = "usv_import") ~> Done )

\* the import of a root with an id is over, its reference left unresolved
C18_Witness ==
  /\ Done /\ OnlyOwnDefinitionRef
  /\ args.initialSchema.id = RootUrl
  /\ validator.unresolvedRefs = << >>
  /\ OwnDefinitionOf(RootUrl) \notin validator.schemas
  /\ result = Return(Undefined)

\* C19: getJSONSchemaSpec on a document whose $schema is the draft-07
\* meta-schema URL, with or without the trailing "#", returns the stored copy
\* and fetches nothing; with any other $schema it makes a fetch.
C19_Draft07Embedded ==
  ( Done /\ op = "getJSONSchemaSpec" /\ args.json.schema # NoRef )
  => IF args.json.schema
          \in {<<"http:", "//json-schema.org/draft-07/schema">>,
               <<"http:", "//json-schema.org/draft-07/schema", "#">>}
     THEN result = Return(JSONSchema07) /\ calls = << >>
     ELSE calls = <<FetchCall(args.json.schema)>>

\* the stored copy is returned where a fetch would have answered otherwise
C19_Witness ==
  /\ Done /\ op = "getJSONSchemaSpec"
  /\ args.json.schema = Draft07Url
  /\ result = Return(JSONSchema07)
  /\ fetchJSONFromUrl(Draft07Url).out.kind = "return"
  /\ fetchJSONFromUrl(Draft07Url).out # Return(JSONSchema07)

\* C20: resolveSchema on an id that is neither a URL nor a blob-qualified
\* schema id fails with the error "Schema id should begin with blob:dock:"
\* and makes neither a fetch nor a ledger query; no call of resolveSchema
\* makes both a ledger query and a fetch.
Unclassifiable(id) == id = NoRef \/ id[1] \notin Schemes

QueriedAbsentRegistry ==
  \E k \in 1..Len(calls) :
    calls[k].kind = "getIsRevoked" /\ calls[k].regId \notin DOMAIN registries

C21_AbsentRegistryNotFound ==
  (Done /\ (InVerifyCredential \/ InVerifyPresentation) /\ QueriedAbsentRegistry)
    => result = Throw(ErrRegistryNotFound)


\* ------------------------------------------------------------------------
\* C22  The revocation identifier is a function of the credential id alone:
\* what getDockRevIdFromCredential returns for a credential is what it
\* returns for every credential with the same id, whatever the other fields
\* are and whatever calls came before; the revocation id a verification
\* queries with is that same value.
\* ------------------------------------------------------------------------

SameId(id) == {c \in Credentials : c.id = id}

\* the credential a recorded revocation query was made for
QueriedCredential(k) ==
  IF InVerifyPresentation THEN presentation.verifiableCredential[calls[k].i]
  ELSE credential

C22_RevocationIdFunctionOfId ==
  /\ (Done /\ op = "getDockRevIdFromCredential") =>
       \A c \in SameId(args.credential.id) :
         result = Return(getDockRevIdFromCredential(c))
  /\ (InVerifyCredential \/ InVerifyPresentation) =>
       \A k \in 1..Len(calls) :
         calls[k].kind = "getIsRevoked" =>
           \A c \in SameId(QueriedCredential(k).id) :
             calls[k].revId = getDockRevIdFromCredential(c)

C22_Witness ==
  /\ Done /\ op = "getDockRevIdFromCredential"
  /\ ~args.credential.credentialStatus.present
  /\ args.credential.id = "urn:cred:2"
  /\ result = Return(blake2AsHex("urn:cred:2"))


\* ------------------------------------------------------------------------
\* C23  Verification calls interleaved at their awaits share nothing: each
\* returns the outcome, and makes exactly the collaborator calls, it makes
\* when run alone on the same ledger; the schemas a call fetches for
\* validation are those its own credentials declare.
\* ------------------------------------------------------------------------

\* the schema ids the credentials handed to a call declare
DeclaredSchemas(a) ==
  IF a.op = "verifyCredential" THEN {a.credential.credentialSchema}
  ELSE {a.presentation.verifiableCredential[k].credentialSchema :
          k \in 1..Len(a.presentation.verifiableCredential)}

C23_InterleavedCallsIndependent ==
  \A t \in Callers :
    LET f == tasks[t].frame IN
    /\ f.pc # "idle" =>
         \A k \in 1..Len(f.calls) :
           f.calls[k].kind = "schemaGet" =>
             f.calls[k].id \in DeclaredSchemas(tasks[t].args)
    /\ f.pc = "done" =>
         /\ f.result = Alone(tasks[t].args, revocations).out
         /\ f.calls = Alone(tasks[t].args, revocations).calls

\* call 2, on a revoked credential, has returned the revocation verdict while
\* call 1, on a presentation, is suspended in its loop
C23_Witness ==
  /\ tasks[1].frame.pc = "vp_schema"
  /\ tasks[1].frame.calls # << >>
  /\ tasks[2].frame.pc = "done"
  /\ tasks[2].args.op = "verifyCredential"
  /\ tasks[2].frame.result = Return(RevokedVerdict)


\* ------------------------------------------------------------------------
\* C24  Status round trip: a credential carrying the status built by
\* buildDockCredentialStatus from a 32-byte hex registry id is revocation-
\* formatted, and checkRevocationStatus queries the revocation service for
\* it with exactly that registry id.
\* ------------------------------------------------------------------------

RegistryIds == {HexRest(r) : r \in RegIds \cup AbsentRegIds}

C24_StatusRoundTrip ==
  \A r \in RegistryIds :
    LET carries == Done /\ "credential" \in DOMAIN args
                     /\ args.credential.credentialStatus
                          = buildDockCredentialStatus(r)
    IN /\ (carries /\ op = "hasDockRevocation") => result = Return("true")
       /\ (carries /\ op = "checkRevocationStatus"
              /\ args.revocationApi = DockApi) =>
            /\ Len(calls) = 1
            /\ calls[1].kind = "getIsRevoked"
            /\ calls[1].regId = r

C24_Witness ==
  /\ Done /\ op = "checkRevocationStatus"
  /\ args.revocationApi = DockApi
  /\ args.credential.credentialStatus
       = buildDockCredentialStatus(HexRest("reg1"))
  /\ calls = <<GetIsRevokedCall(0, HexRest("reg1"), blake2AsHex("urn:cred:2"),
                                FALSE)>>

\* ------------------------------------------------------------------------
\* C25  checkRevocationStatus with a compatible service: a credential that
\* is not revocation-formatted gets the format verdict and the service is not
\* queried; otherwise the service is queried exactly once, with the status
\* id minus the qualifier and the hash of the credential id, and the verdict
\* is verified exactly when the answer is false.
\* ------------------------------------------------------------------------

RevocationFormatted(c) ==
  LET st == c.credentialStatus IN
  /\ st.present /\ st.type = RevRegType /\ st.hasId
  /\ st.id.qualifier = DockRevRegQualifier
  /\ isHexWithGivenByteSize(st.id.rest, RevRegIdByteSize)

C25_CheckRevocationStatus ==
  (Done /\ op = "checkRevocationStatus" /\ args.revocationApi = DockApi) =>
    LET c == args.credential IN
    IF ~RevocationFormatted(c)
    THEN result = Return(FormatVerdict) /\ calls = << >>
    ELSE /\ Len(calls) = 1
         /\ calls[1].kind = "getIsRevoked"
         /\ calls[1].regId = c.credentialStatus.id.rest
         /\ calls[1].revId = blake2AsHex(c.id)
         /\ result.kind = "return"
         /\ result.value.verified <=> (calls[1].answer = FALSE)


\* ------------------------------------------------------------------------
\* C26  verifyPresentation checks the credentials one after the other in
\* sequence order: the collaborator calls are made in the order of the
\* positions they are for, none for a position the loop has not reached, and
\* for one credential the revocation query comes before the schema fetch.
\* ------------------------------------------------------------------------

C26_SequentialCredentialChecks ==
  InVerifyPresentation =>
    /\ \A k \in 1..Len(calls) : calls[k].i <= idx
    /\ \A j, k \in 1..Len(calls) :
         j < k =>
           /\ calls[j].i <= calls[k].i
           /\ (calls[j].i = calls[k].i /\ calls[j].i > 0) =>
                (calls[j].kind = "getIsRevoked" /\ calls[k].kind = "schemaGet")

C26_Witness ==
  /\ Done /\ InVerifyPresentation
  /\ Len(calls) = 5
  /\ [k \in 1..5 |-> <<calls[k].kind, calls[k].i>>]
       = << <<"resolve", 0>>, <<"getIsRevoked", 1>>, <<"schemaGet", 1>>,
            <<"getIsRevoked", 2>>, <<"schemaGet", 2>> >>


\* ------------------------------------------------------------------------
\* C27  Schema import terminates with an empty worklist: over a finite set
\* of schemas, updateSchemaValidatorWithSchemas eventually returns; when it
\* returns the queue of unresolved references is empty; and no reference is
\* resolved more than once.
\* ------------------------------------------------------------------------

EachResolvedOnce ==
  \A j, k \in 1..Len(calls) :
    (j < k /\ calls[j].kind = "fetch" /\ calls[k].kind = "fetch") =>
      calls[j].url # calls[k].url

C27_ImportTerminatesEachOnce ==
  /\ [](InSchemaImport =>
          /\ EachResolvedOnce
          /\ (Done /\ result = Return(Undefined)) =>
               validator.unresolvedRefs = << >>)
  /\ ((InSchemaImport /\ ~Done) ~> Done)


\* ------------------------------------------------------------------------
\* C28  validateCredentialSchema validates every subject: one object is
\* validated once, a sequence element by element in order (the empty
\* sequence not at all); the copy validated lacks `id` exactly when the
\* schema does not require it; validation stops with an error at the first
\* subject that fails and returns true when none does.
\* ------------------------------------------------------------------------

\* the subjects of a credentialSubject: the object itself, or the elements
SubjectElements(cs) ==
  IF cs.kind = "object" THEN << cs.fields >> ELSE cs.items

C28_EverySubjectValidated ==
  (Done /\ op = "validateCredentialSchema"
     /\ args.credential.credentialSubject.kind # "none") =>
    LET schema == args.schema
        elems == SubjectElements(args.credential.credentialSubject)
        Copy(k) == IF "id" \in schema.required THEN elems[k]
                   ELSE elems[k] \ {"id"}
        Bad == {k \in 1..Len(elems) : ~validate(Copy(k), schema)}
    IN /\ Len(calls) <= Len(elems)
       /\ \A k \in 1..Len(calls) :
            /\ calls[k].index = k
            /\ calls[k].subject = Copy(k)
            /\ k < Len(calls) => k \notin Bad
       /\ IF Bad = {}
          THEN result = Return(TRUE) /\ Len(calls) = Len(elems)
          ELSE result = Throw(ErrValidation) /\ Len(calls) \in Bad


\* ------------------------------------------------------------------------
\* C29  In resolveSchema every successful return value is what fetching the
\* identifier as a locator gave.  As claimed: for a ledger-qualified
\* identifier and a configured ledger service the ledger is asked for the
\* document, the document is dropped and the identifier is fetched.  As the
\* code has it: the ledger is not asked at all, the identifier is fetched and
\* nothing else.
\* ------------------------------------------------------------------------

ResolveSchemaReturned == Done /\ op = "resolveSchema"

LedgerQualified == StartsWith(args.schemaId, BlobQualifier)

SuccessIsTheFetch ==
  result.kind = "return" => result = fetchJSONFromUrl(args.schemaId).out

InRevocationUpdate == op \in {"revokeCredential", "unrevokeCredential"}

\* the read step takes the ledger's value of that moment, or ends the call
ReadTakesLedgerValue ==
  (pc = "urr_read" /\ pc' # "urr_read") =>
    IF args.registryId \in DOMAIN registries
    THEN pc' = "urr_build" /\ params'.lastModified = registries[args.registryId]
    ELSE pc' = "done" /\ result' = Throw(ErrRegistryNotFound)

UpdateBuiltFromValueRead ==
  (InRevocationUpdate /\ Done) =>
    IF result.kind = "return"
    THEN /\ result.value.method = UpdateFuncOf(op)
         /\ result.value.update.registry_id = args.registryId
         /\ result.value.update.revoke_ids = {args.revId}
         /\ result.value.update.last_modified = params.lastModified
         /\ result.value.update.last_modified <= registries[args.registryId]
    ELSE /\ result = Throw(ErrRegistryNotFound)
         /\ args.registryId \notin DOMAIN registries

C30_UpdateCarriesBlockRead ==
  /\ [][ReadTakesLedgerValue]_vars
  /\ [](UpdateBuiltFromValueRead)
  /\ [](pc = "urr_build" => args.registryId \in DOMAIN registries)

\* the registry changed between the read and the construction: the update
\* returned carries a block number the ledger has moved past
C30_Witness ==
  /\ Done /\ op = "revokeCredential"
  /\ result.kind = "return"
  /\ result.value.update.last_modified = FirstBlock
  /\ registries[args.registryId] = FirstBlock + 1

====
